---- MODULE Spec2Model ----
(***************************************************************************)
(* A model of the query pipeline of the DNS server (src/src/client.rs):    *)
(* DnsClient::results and the stages of standard_query (cache, label       *)
(* count, blocklist, authoritative zones, resolver), together with the     *)
(* blocklist loader (src/src/blocklist.rs) and the rdata encoders of       *)
(* src/src/serialization.rs and src/src/record.rs; the wire codec of       *)
(* headers (header.rs), names (serialization.rs) and messages (query.rs,   *)
(* answer.rs, packet.rs); and default_resolver (resolvers.rs).             *)
(*                                                                         *)
(* A Rust String is modelled as the sequence of its characters, each a     *)
(* one-character TLA+ string, so that split('.'), find("*.") and the       *)
(* label-wise suffix construction are computed as the code computes them.  *)
(***************************************************************************)
EXTENDS Integers, Sequences, FiniteSets, TLC

VARIABLES
    blocklist,   \* DnsClient.blocklist : HashMap<String, bool>
    zones,       \* what authorities() loads from AUTHORITY_DIR
    cache,       \* the TtlCache behind DnsClient.cache, oldest entry first
    now,         \* the wall clock the TtlCache reads
    req,         \* the request last given to results(), or NoReq
    reqAt,       \* the clock when that request entered results()
    out,         \* what results() produced for it
    probe        \* the last direct application of a function of the codec or of
                 \* check_blocklist, with its result

vars == <<blocklist, zones, cache, now, req, reqAt, out, probe>>

(***************************************************************************)
(* Bounds of the model.                                                    *)
(***************************************************************************)
MaxTime == 3
MaxTtl == 2
CacheCapacity == 1
MaxFileLen == 2
MaxHops == 17

(***************************************************************************)
(* Strings.                                                                *)
(***************************************************************************)
Lower == <<"a","b","c","d","e","f","g","h","i","j","k","l","m",
           "n","o","p","q","r","s","t","u","v","w","x","y","z">>
Digits == <<"0","1","2","3","4","5","6","7","8","9">>

IndexIn(seq, c) == CHOOSE i \in 1..Len(seq) : seq[i] = c
InSeq(seq, c) == \E i \in 1..Len(seq) : seq[i] = c

\* str::as_bytes on the characters the model uses (ASCII)
Ord(c) ==
    IF InSeq(Lower, c) THEN 96 + IndexIn(Lower, c)
    ELSE IF InSeq(Digits, c) THEN 47 + IndexIn(Digits, c)
    ELSE CASE c = "." -> 46
           [] c = ":" -> 58
           [] c = "@" -> 64
           [] c = "*" -> 42
           [] c = " " -> 32

as_bytes(s) == [i \in 1..Len(s) |-> Ord(s[i])]

\* the k-th smallest element of a set of positions
Nth(S, k) == CHOOSE p \in S : Cardinality({ q \in S : q < p }) = k - 1

\* str::split(sep): the pieces between the separators; "" gives one empty piece
split(s, sep) ==
    LET seps == { i \in 1..Len(s) : s[i] = sep }
        n == Cardinality(seps) + 1
    IN [k \in 1..n |->
          SubSeq(s, IF k = 1 THEN 1 ELSE Nth(seps, k - 1) + 1,
                    IF k = n THEN Len(s) ELSE Nth(seps, k) - 1)]

\* Vec::reverse
reverse(seq) == [i \in 1..Len(seq) |-> seq[Len(seq) + 1 - i]]

\* the byte offsets at which the two-character pattern "*." starts in s
StarDotAt(s) == { i \in 1..(Len(s) - 1) : s[i] = "*" /\ s[i + 1] = "." }

Min(S) == CHOOSE x \in S : \A y \in S : x <= y
Max(S) == CHOOSE x \in S : \A y \in S : x >= y

\* sequences over S of length 0..n
RECURSIVE SeqsUpTo(_, _)
SeqsUpTo(S, n) ==
    IF n = 0 THEN {<<>>}
    ELSE LET shorter == SeqsUpTo(S, n - 1)
         IN shorter \cup { Append(q, x) : q \in { r \in shorter : Len(r) = n - 1 }, x \in S }

(***************************************************************************)
(* Blocklist: loading (blocklist.rs) and testing (client.rs).              *)
(***************************************************************************)
\* validate_blocklist_entry: [ok, domain, wildcard]
validate_blocklist_entry(s) ==
    IF ~InSeq(s, "*") THEN [ok |-> TRUE, domain |-> s, wildcard |-> FALSE]
    ELSE LET at == StarDotAt(s) IN
         IF at # {} /\ Min(at) # Max(at)
            THEN [ok |-> FALSE, domain |-> <<>>, wildcard |-> FALSE]
         ELSE IF at = {}
            THEN [ok |-> FALSE, domain |-> <<>>, wildcard |-> FALSE]
         ELSE IF Min(at) - 1 = Len(s) - 2
            THEN [ok |-> FALSE, domain |-> <<>>, wildcard |-> FALSE]
         ELSE [ok |-> TRUE,
               domain |-> SubSeq(s, Min(at) + 2, Len(s)),
               wildcard |-> TRUE]

\* HashMap::insert
MapInsert(m, k, v) == [x \in (DOMAIN m) \cup {k} |-> IF x = k THEN v ELSE m[x]]

EmptyMap == [x \in {} |-> FALSE]

\* load_blocklist on a file that lists `entries`, each of them valid
RECURSIVE LoadInto(_, _)
LoadInto(res, entries) ==
    IF entries = <<>> THEN res
    ELSE LET e == validate_blocklist_entry(Head(entries))
         IN LoadInto(MapInsert(res, e.domain, e.wildcard), Tail(entries))

load_blocklist(entries) == LoadInto(EmptyMap, entries)

\* the suffix loop of check_blocklist over the reversed labels: TRUE when some
\* suffix built so far is in the blocklist with the flag true
RECURSIVE SuffixBlocked(_, _, _)
SuffixBlocked(bl, parts, suffix) ==
    IF parts = <<>> THEN FALSE
    ELSE LET next == IF suffix = <<>> THEN Head(parts) \o suffix
                     ELSE Head(parts) \o <<".">> \o suffix
         IN IF next \in DOMAIN bl /\ bl[next] THEN TRUE
            ELSE SuffixBlocked(bl, Tail(parts), next)

\* the suffix loop with the wildcard flag ignored
RECURSIVE SuffixPresent(_, _, _)
SuffixPresent(bl, parts, suffix) ==
    IF parts = <<>> THEN FALSE
    ELSE LET next == IF suffix = <<>> THEN Head(parts) \o suffix
                     ELSE Head(parts) \o <<".">> \o suffix
         IN IF next \in DOMAIN bl THEN TRUE
            ELSE SuffixPresent(bl, Tail(parts), next)

\* check_blocklist as it would be if every stored suffix counted as a wildcard
check_blocklist_any_flag(bl, domain) ==
    IF domain \in DOMAIN bl THEN FALSE
    ELSE ~SuffixPresent(bl, reverse(split(domain, ".")), <<>>)

\* TRUE when string s ends with string k
ends_with(s, k) == Len(k) <= Len(s) /\ SubSeq(s, Len(s) - Len(k) + 1, Len(s)) = k

\* check_blocklist as it would be if wildcard suffixes were matched on the
\* text of the name instead of on its labels
check_blocklist_ends_with(bl, domain) ==
    IF domain \in DOMAIN bl THEN FALSE
    ELSE ~ \E k \in DOMAIN bl : bl[k] /\ ends_with(domain, k)

\* DnsClient::check_blocklist: TRUE when the domain is NOT blocked
check_blocklist(bl, domain) ==
    IF domain \in DOMAIN bl THEN FALSE
    ELSE ~SuffixBlocked(bl, reverse(split(domain, ".")), <<>>)

(***************************************************************************)
(* Messages (header.rs, query.rs, answer.rs, packet.rs).                   *)
(***************************************************************************)
ResourceTypes == {"A", "AAAA", "NS", "CName", "StartOfAuthority", "MX"}

\* DnsHeader::new
DnsHeader_new ==
    [tx_id |-> 0, is_response |-> FALSE, opcode |-> 0, authoritative |-> FALSE,
     truncated |-> FALSE, recursion_desired |-> FALSE,
     recursion_available |-> FALSE, z |-> 0, response_code |-> "NoError",
     questions_count |-> 0, answers_count |-> 0, authority_count |-> 0,
     additional_count |-> 0]

\* DnsPacket::new
DnsPacket_new ==
    [header |-> DnsHeader_new, queries |-> <<>>, answers |-> <<>>,
     authority |-> <<>>, additional |-> <<>>]

\* DnsPacket::new_response
new_response == [DnsPacket_new EXCEPT !.header.is_response = TRUE]

\* DnsAnswer::new
DnsAnswer_new ==
    [name |-> <<>>, qtype |-> "Unused", class |-> 1, ttl |-> 0,
     data_length |-> 0, rdata |-> <<>>]

(***************************************************************************)
(* Rdata encoders (serialization.rs, record.rs).                           *)
(***************************************************************************)
\* write_u16::<NetworkEndian>(n as u16)
U16BE(n) == << (n % 65536) \div 256, n % 256 >>

RECURSIVE Flatten(_)
Flatten(seqs) == IF seqs = <<>> THEN <<>> ELSE Head(seqs) \o Flatten(Tail(seqs))

\* the labels without the closing zero octet
serialize_domain_unterminated(domain) ==
    LET words == split(domain, ".")
    IN Flatten([i \in 1..Len(words) |-> <<Len(words[i]) % 256>> \o as_bytes(words[i])])

\* serialize_domain_to_bytes
serialize_domain_to_bytes(domain) ==
    LET words == split(domain, ".")
    IN IF Len(words) > 1
       THEN Flatten([i \in 1..Len(words) |->
                        <<Len(words[i]) % 256>> \o as_bytes(words[i])]) \o <<0>>
       ELSE <<>>

\* str::parse::<u8> on a string of decimal digits
RECURSIVE ParseDec(_, _)
ParseDec(s, acc) ==
    IF s = <<>> THEN acc
    ELSE ParseDec(Tail(s), 10 * acc + (IndexIn(Digits, Head(s)) - 1))

\* deserialize_ipv4_from_str: one octet for each dot-separated piece
deserialize_ipv4_from_str(s) ==
    LET pieces == split(s, ".")
    IN [i \in 1..Len(pieces) |-> ParseDec(pieces[i], 0)]

HexDigits == <<"0","1","2","3","4","5","6","7","8","9","a","b","c","d","e","f">>

RECURSIVE ParseHex(_, _)
ParseHex(s, acc) ==
    IF s = <<>> THEN acc
    ELSE ParseHex(Tail(s), 16 * acc + (IndexIn(HexDigits, Head(s)) - 1))

Groups(s) == IF s = <<>> THEN <<>>
             ELSE LET g == split(s, ":") IN [i \in 1..Len(g) |-> ParseHex(g[i], 0)]

\* str::parse::<Ipv6Addr>().segments(): the eight 16-bit groups, "::" standing
\* for the run of zero groups that completes them
Ipv6Segments(s) ==
    LET gaps == { i \in 1..(Len(s) - 1) : s[i] = ":" /\ s[i + 1] = ":" }
    IN IF gaps = {} THEN Groups(s)
       ELSE LET i == Min(gaps)
                left == Groups(SubSeq(s, 1, i - 1))
                right == Groups(SubSeq(s, i + 2, Len(s)))
            IN left \o [k \in 1..(8 - Len(left) - Len(right)) |-> 0] \o right

\* deserialize_ipv6_from_str: high octet then low octet of each segment
deserialize_ipv6_from_str(s) ==
    LET segs == Ipv6Segments(s)
    IN Flatten([i \in 1..Len(segs) |-> << segs[i] \div 256, segs[i] % 256 >>])

\* SoaInformation::to_bytes
SoaInformation_to_bytes(soa) ==
    LET fqdn == IF soa.fqdn # <<>> /\ soa.fqdn[Len(soa.fqdn)] = "."
                THEN SubSeq(soa.fqdn, 1, Len(soa.fqdn) - 1)
                ELSE soa.fqdn
    IN serialize_domain_to_bytes(fqdn) \o serialize_domain_to_bytes(soa.email)
       \o U16BE(soa.serial) \o U16BE(soa.refresh) \o U16BE(soa.retry)
       \o U16BE(soa.expire) \o U16BE(soa.minimum)

\* MxInformation::to_bytes: the preference, then the exchange
MxInformation_to_bytes(mx) ==
    U16BE(mx.preference) \o serialize_domain_to_bytes(mx.exchange)

(***************************************************************************)
(* The strings the model draws its inputs from.                            *)
(***************************************************************************)
AdsCom == <<"a","d","s",".","c","o","m">>   \* "ads.com"
XAdsCom == <<"x",".","a","d","s",".","c","o","m">>   \* "x.ads.com"
YXAdsCom == <<"y",".","x",".","a","d","s",".","c","o","m">>   \* "y.x.ads.com"
NotAdsCom == <<"n","o","t","a","d","s",".","c","o","m">>   \* "notads.com"
ACom == <<"a",".","c","o","m">>   \* "a.com"
XACom == <<"x",".","a",".","c","o","m">>   \* "x.a.com"
BazFooCom == <<"b","a","z",".","f","o","o",".","c","o","m">>   \* "baz.foo.com"
BarFooCom == <<"b","a","r",".","f","o","o",".","c","o","m">>   \* "bar.foo.com"
FooCom == <<"f","o","o",".","c","o","m">>   \* "foo.com"
Localhost == <<"l","o","c","a","l","h","o","s","t">>   \* "localhost"
PixelTrackerNet == <<"p","i","x","e","l",".","t","r","a","c","k","e","r",".","n","e","t">>   \* "pixel.tracker.net"
TrackerNet == <<"t","r","a","c","k","e","r",".","n","e","t">>   \* "tracker.net"
AdsExampleCom == <<"a","d","s",".","e","x","a","m","p","l","e",".","c","o","m">>   \* "ads.example.com"
StarAdsCom == <<"*",".","a","d","s",".","c","o","m">>   \* "*.ads.com"
StarFooCom == <<"*",".","f","o","o",".","c","o","m">>   \* "*.foo.com"
StarTrackerNet == <<"*",".","t","r","a","c","k","e","r",".","n","e","t">>   \* "*.tracker.net"
Empty == <<>>   \* ""

\* the root server address standard_query hands to the resolver
RootHost == <<"1","9","8",".","4","1",".","0",".","4">>

(***************************************************************************)
(* Authoritative zones (authority.rs, record.rs), as the zone files of     *)
(* client.rs test_authoritative_query describe them.                       *)
(***************************************************************************)
SoaData ==
    [kind |-> "Soa", domain_name |-> <<"f","o","o">>, fqdn |-> <<"s","o","a",".","f","o","o",".","c","o","m",".">>, email |-> <<"f","o","o","@","f","o","o",".","c","o","m">>,
     serial |-> 42, refresh |-> 43, retry |-> 44, expire |-> 45, minimum |-> 46]

Rec(name, ttl, type, data) == [name |-> name, ttl |-> ttl, rec_type |-> type, data |-> data]

FooZone ==
    [default_ttl |-> 60, origin |-> FooCom, records |-> <<
        Rec(<<"b","a","z">>, 60, "StartOfAuthority", SoaData),
        Rec(<<"b","a","z">>, 30, "A", [kind |-> "A", value |-> <<"1","2",".","3","4",".","5","6",".","7","8">>]),
        Rec(<<"b","a","z">>, 45, "A", [kind |-> "A", value |-> <<"1","0",".","0",".","0",".","1">>]),
        Rec(<<"b","a","z">>, 30, "AAAA", [kind |-> "AAAA", value |-> <<"2","6","0","7",":","f","8","b","0",":","4","0","0","9",":","8","1","1",":",":","2","0","0","e">>]),
        Rec(<<"b","a","z">>, 30, "CName", [kind |-> "CName", value |-> <<"b","l","a",".","c","o","m">>]),
        Rec(<<"b","a","z">>, 30, "MX", [kind |-> "MX", preference |-> 42, exchange |-> <<"m","a","i","l",".","f","o","o",".","c","o","m">>]),
        Rec(<<"b","a","z">>, 30, "NS", [kind |-> "NS", value |-> <<"n","s",".","f","o","o",".","c","o","m">>]) >>]

AdsZone ==
    [default_ttl |-> 60, origin |-> AdsCom, records |-> <<
        Rec(<<"x">>, 60, "StartOfAuthority", SoaData),
        Rec(<<"x">>, 20, "A", [kind |-> "A", value |-> <<"1","0",".","0",".","0",".","1">>]) >>]

NetZone ==
    [default_ttl |-> 60, origin |-> TrackerNet, records |-> <<
        Rec(<<"p","i","x","e","l">>, 60, "StartOfAuthority", SoaData) >>]

ZoneConfigs == { <<>>, <<NetZone, AdsZone, FooZone>> }

\* Authority::check_has_one_authority_record with the assertion weakened
check_has_some_authority_record(auth) ==
    Cardinality({ i \in 1..Len(auth.records) :
                    auth.records[i].rec_type = "StartOfAuthority" }) >= 1

\* Authority::check_has_one_authority_record
check_has_one_authority_record(auth) ==
    Cardinality({ i \in 1..Len(auth.records) :
                    auth.records[i].rec_type = "StartOfAuthority" }) = 1

(***************************************************************************)
(* The TTL cache (cache.rs: TtlCache<DnsQuery, DnsAnswer>).  An entry is   *)
(* [key, value, expires]; an expired entry stays in the sequence until an  *)
(* insertion removes it.                                                   *)
(***************************************************************************)
None == [none |-> TRUE]

Expired(e, t) == t > e.expires

\* TtlCache::get at clock t
cache_get(c, t, k) ==
    LET live == { i \in 1..Len(c) : c[i].key = k /\ ~Expired(c[i], t) }
    IN IF live = {} THEN None ELSE c[Min(live)].value

\* TtlCache::contains_key at clock t
contains_key(c, t, k) == cache_get(c, t, k) # None

KeepOthers(c, k) == SelectSeq(c, LAMBDA e : e.key # k)

\* TtlCache::insert at clock t with a capacity of cap entries
cache_insert(c, t, k, v, ttl, cap) ==
    LET kept == KeepOthers(c, k)
        live == SelectSeq(kept, LAMBDA e : ~Expired(e, t))
        room == IF Len(kept) < cap THEN kept
                ELSE IF Len(live) < cap THEN live
                ELSE Tail(live)
    IN IF cap = 0 THEN <<>>
       ELSE Append(room, [key |-> k, value |-> v, expires |-> t + ttl])

(***************************************************************************)
(* The pipeline (client.rs).  A stage yields                               *)
(*   [kind, packet, trace, calls]                                          *)
(* kind "ok" for Ok(packet), "drop" for Err(()), "panic" for an unwrap on  *)
(* None; trace lists the sources the run consulted, in order; calls lists  *)
(* the invocations of the resolver, each with what the resolver returned.  *)
(***************************************************************************)
Ok(packet, trace, calls) ==
    [kind |-> "ok", packet |-> packet, trace |-> trace, calls |-> calls]
Drop(trace) == [kind |-> "drop", packet |-> None, trace |-> trace, calls |-> <<>>]
Panic(trace) == [kind |-> "panic", packet |-> None, trace |-> trace, calls |-> <<>>]

Step(name, o) == [o EXCEPT !.trace = <<name>> \o @]

\* stub_resolver (resolvers.rs)
stub_resolver(r) ==
    [header |-> [r.header EXCEPT !.is_response = TRUE, !.answers_count = 1,
                                 !.additional_count = 0, !.authority_count = 0],
     queries |-> r.queries,
     answers |-> << [DnsAnswer_new EXCEPT !.rdata = <<222, 202, 251, 173>>,
                                          !.name = r.queries[1].name,
                                          !.class = 1,
                                          !.data_length = 4,
                                          !.qtype = r.queries[1].qtype] >>,
     authority |-> <<>>,
     additional |-> <<>>]

\* what a resolver F may return for r: the closures of the tests of client.rs
\* (the request itself, an empty packet), stub_resolver, and an answer like
\* stub_resolver's that carries a positive TTL
ResolverResponses(r) ==
    {r, DnsPacket_new}
        \cup (IF r.queries = <<>> THEN {}
              ELSE {stub_resolver(r),
                    [stub_resolver(r) EXCEPT !.answers[1].ttl = MaxTtl]})

\* client.rs 160-162: the resolver's packet is the result
resolver_stage(r, rr) ==
    Ok(rr, <<"resolver">>,
       << [host |-> RootHost, req |-> r, port |-> 40000, ret |-> rr] >>)

\* the (zone, record) pairs the two nested loops visit, in order
ZoneCandidates(auths, tld) ==
    Flatten([i \in 1..Len(auths) |->
        LET labels == split(auths[i].origin, ".")
        IN IF labels[Len(labels)] = tld
           THEN [j \in 1..Len(auths[i].records) |->
                    [origin |-> auths[i].origin, record |-> auths[i].records[j]]]
           ELSE <<>>])

RecordName(c) == c.record.name \o <<".">> \o c.origin

Matches(query, c) == query.qtype = c.record.rec_type /\ query.name = RecordName(c)

\* the rdata and data_length of the match arms of standard_query
encode_rdata(data) ==
    CASE data.kind = "A" ->
            [data_length |-> 4, rdata |-> deserialize_ipv4_from_str(data.value)]
      [] data.kind = "NS" ->
            [data_length |-> Len(serialize_domain_to_bytes(data.value)) % 65536,
             rdata |-> serialize_domain_to_bytes(data.value)]
      [] data.kind = "AAAA" ->
            [data_length |-> 16, rdata |-> deserialize_ipv6_from_str(data.value)]
      [] data.kind = "CName" ->
            [data_length |-> Len(serialize_domain_to_bytes(data.value)) % 65536,
             rdata |-> serialize_domain_to_bytes(data.value)]
      [] data.kind = "Soa" ->
            [data_length |-> Len(SoaInformation_to_bytes(data)) % 65536,
             rdata |-> SoaInformation_to_bytes(data)]
      [] data.kind = "MX" ->
            [data_length |-> Len(MxInformation_to_bytes(data)) % 65536,
             rdata |-> MxInformation_to_bytes(data)]

authoritative_answer(query, c) ==
    LET enc == encode_rdata(c.record.data)
    IN [DnsAnswer_new EXCEPT !.ttl = c.record.ttl,
                             !.name = RecordName(c),
                             !.qtype = query.qtype,
                             !.data_length = enc.data_length,
                             !.rdata = enc.rdata]

authoritative_response(r, ans) ==
    [new_response EXCEPT !.header.authoritative = TRUE,
                         !.header.answers_count = 1,
                         !.header.questions_count = 1,
                         !.header.tx_id = r.header.tx_id,
                         !.queries = r.queries,
                         !.answers = <<ans>>]

\* a loop that kept going after a match would answer with the last one
LastMatch(hits) == Max(hits)

\* the loops return at the first match
FirstMatch(hits) == Min(hits)

\* client.rs 108-162
zone_stage(r, rr) ==
    LET query == r.queries[1]
        parts == split(query.name, ".")
        cands == ZoneCandidates(zones, parts[Len(parts)])
        hits == { i \in 1..Len(cands) : Matches(query, cands[i]) }
    IN IF hits # {}
       THEN Ok(authoritative_response(r, authoritative_answer(query, cands[FirstMatch(hits)])),
               <<"zones">>, <<>>)
       ELSE Step("zones", resolver_stage(r, rr))

\* a pipeline without the blocklist check
blocklist_stage_skipped(r, rr) == Step("blocklist", zone_stage(r, rr))

\* client.rs 104-107
blocklist_stage(r, rr) ==
    IF ~check_blocklist(blocklist, r.queries[1].name)
    THEN Drop(<<"blocklist">>)
    ELSE Step("blocklist", zone_stage(r, rr))

\* a NameError packet that is left marked as a query
name_error_unmarked(r) == [r EXCEPT !.header.response_code = "NameError"]

\* client.rs 100-101
name_error(r) ==
    [r EXCEPT !.header.response_code = "NameError", !.header.is_response = TRUE]

\* client.rs 97-103
label_stage(r, rr) ==
    IF Len(split(r.queries[1].name, ".")) < 2
    THEN Ok(name_error(r), <<"labels">>, <<>>)
    ELSE Step("labels", blocklist_stage(r, rr))

\* client.rs 92-94
cache_hit(r, rec) == [r EXCEPT !.answers = <<rec>>]

\* a lookup that takes an entry that is physically present, expired or not
cache_stage_physical(r, t, dt, rr) ==
    LET query == r.queries[1]
        found == { i \in 1..Len(cache) : cache[i].key = query }
    IN IF found # {}
       THEN Ok(cache_hit(r, cache[Min(found)].value), <<"cache">>, <<>>)
       ELSE Step("cache", label_stage(r, rr))

\* a pipeline that counts the labels before it looks into the cache
cache_stage_after_labels(r, t, dt, rr) ==
    LET query == r.queries[1] IN
    IF Len(split(query.name, ".")) < 2
    THEN Ok(name_error(r), <<"labels">>, <<>>)
    ELSE IF contains_key(cache, t, query)
    THEN IF cache_get(cache, t + dt, query) = None
         THEN Panic(<<"cache">>)
         ELSE Ok(cache_hit(r, cache_get(cache, t + dt, query)), <<"cache">>, <<>>)
    ELSE Step("cache", label_stage(r, rr))

\* client.rs 91-95: contains_key reads the clock at t, the two get calls by t + dt
cache_stage(r, t, dt, rr) ==
    LET query == r.queries[1] IN
    IF contains_key(cache, t, query)
    THEN IF cache_get(cache, t + dt, query) = None
         THEN Panic(<<"cache">>)
         ELSE Ok(cache_hit(r, cache_get(cache, t + dt, query)), <<"cache">>, <<>>)
    ELSE Step("cache", label_stage(r, rr))

\* DnsClient::standard_query
standard_query(r, t, dt, rr) ==
    IF r.header.questions_count > 1
    THEN Ok([r EXCEPT !.header.response_code = "NotImplemented"], <<>>, <<>>)
    ELSE IF r.queries = <<>>
    THEN Panic(<<>>)
    ELSE cache_stage(r, t, dt, rr)

\* an error packet that is left marked as a query
inverse_query_unmarked(r) ==
    Ok([DnsPacket_new EXCEPT !.header.response_code = "NotImplemented"], <<>>, <<>>)

\* DnsClient::inverse_query
inverse_query(r) ==
    Ok([new_response EXCEPT !.header.response_code = "NotImplemented"], <<>>, <<>>)

\* DnsClient::unsupported
unsupported(r) ==
    Ok([new_response EXCEPT !.header.response_code = "NotImplemented"], <<>>, <<>>)

\* DnsClient::results
results(r, t, dt, rr) ==
    CASE r.header.opcode = 0 -> standard_query(r, t, dt, rr)
      [] r.header.opcode = 1 -> inverse_query(r)
      [] OTHER -> unsupported(r)

(***************************************************************************)
(* Inputs.                                                                 *)
(***************************************************************************)
Question(name, qtype) == [name |-> name, qtype |-> qtype, class |-> 1]

QNames == {AdsCom, XAdsCom, ACom, XACom, BazFooCom, BarFooCom, Localhost, Empty}

Questions ==
    { Question(n, "A") : n \in QNames }
        \cup { Question(BazFooCom, ty) : ty \in ResourceTypes }

QuerySections ==
    {<<>>} \cup { <<q>> : q \in Questions }
           \cup { << Question(BazFooCom, "A"), Question(XAdsCom, "A") >> }

TxIds == {0, 48879}

Request(tx, op, qc, qs) ==
    [DnsPacket_new EXCEPT !.header.tx_id = tx,
                          !.header.opcode = op,
                          !.header.questions_count = qc,
                          !.queries = qs]

\* standard queries: every question section under every count 0..2
StandardRequests ==
    { Request(tx, 0, qc, qs) : tx \in TxIds, qc \in 0..2, qs \in QuerySections }

\* inverse queries and other opcodes, over questions that are cached, blocked,
\* single-label or served by a zone in some run
OtherRequests ==
    { Request(tx, op, qc, qs) :
        tx \in TxIds, op \in {1, 2, 15}, qc \in 0..1,
        qs \in { <<>>, <<Question(BazFooCom, "A")>>, <<Question(XAdsCom, "A")>>,
                 <<Question(Localhost, "A")>> } }

Requests == StandardRequests \cup OtherRequests

\* the keys the embedding program inserts into the cache
CacheKeys == { Question(XAdsCom, "A"), Question(Localhost, "A") }

\* the record the embedding program stores under key k
CachedAnswer(k) ==
    [DnsAnswer_new EXCEPT !.name = k.name, !.qtype = k.qtype,
                          !.data_length = 4, !.rdata = <<222, 202, 251, 173>>]

\* the blocklist files of the pipeline runs
BlocklistFiles == { <<>>, <<StarAdsCom, ACom>>, <<StarFooCom>> }

\* the blocklist files and the names of the direct applications of check_blocklist
EntryStrings == {StarAdsCom, AdsCom, ACom, StarFooCom, AdsExampleCom, StarTrackerNet}
Domains == {AdsCom, XAdsCom, YXAdsCom, NotAdsCom, ACom, XACom, BarFooCom, FooCom,
            PixelTrackerNet, TrackerNet, AdsExampleCom, Localhost}

NoReq == [none |-> TRUE]
NoOut == [kind |-> "none", packet |-> None, trace |-> <<>>, calls |-> <<>>]
NoProbe == [none |-> TRUE]

(***************************************************************************)
(* The pipeline as a state machine.                                        *)
(***************************************************************************)
Init ==
    /\ blocklist \in { load_blocklist(f) : f \in BlocklistFiles }
    /\ zones \in { z \in ZoneConfigs :
                      \A i \in 1..Len(z) : check_has_one_authority_record(z[i]) }
    /\ cache = <<>>
    /\ now = 0
    /\ req = NoReq
    /\ reqAt = 0
    /\ out = NoOut
    /\ probe = NoProbe

\* the embedding program stores a record (client.rs 215: cache.insert)
Insert ==
    /\ req = NoReq
    /\ \E k \in CacheKeys, ttl \in 1..MaxTtl :
        /\ cache' = cache_insert(cache, now, k, CachedAnswer(k), ttl, CacheCapacity)
        /\ UNCHANGED <<blocklist, zones, now, req, reqAt, out, probe>>

\* the wall clock advances
Tick ==
    /\ req = NoReq
    /\ now < MaxTime
    /\ now' = now + 1
    /\ UNCHANGED <<blocklist, zones, cache, req, reqAt, out, probe>>

\* TRUE when results() hands r to the resolver
ReachesResolver(r, t, dt) == results(r, t, dt, DnsPacket_new).calls # <<>>

\* one call of results() on a received request; dt is the time that passes
\* inside the call, rr what the resolver returns if it is invoked
Handle ==
    /\ req = NoReq
    /\ \E r \in Requests, dt \in 0..1 :
        \E rr \in (IF ReachesResolver(r, now, dt) THEN ResolverResponses(r)
                   ELSE {DnsPacket_new}) :
            /\ now + dt <= MaxTime
            /\ req' = r
            /\ reqAt' = now
            /\ out' = results(r, now, dt, rr)
            /\ now' = now + dt
            /\ UNCHANGED <<blocklist, zones, cache, probe>>

\* the outcome is delivered (or the request dropped) and the messages discarded
Finish ==
    /\ req # NoReq
    /\ req' = NoReq
    /\ out' = NoOut
    /\ reqAt' = 0
    /\ UNCHANGED <<blocklist, zones, cache, now, probe>>

Next == Insert \/ Tick \/ Handle \/ Finish

Spec == Init /\ [][Next]_vars

(***************************************************************************)
(* check_blocklist applied directly to loaded blocklists.                  *)
(***************************************************************************)
ValidFiles ==
    { f \in SeqsUpTo(EntryStrings, MaxFileLen) :
        \A i \in 1..Len(f) : validate_blocklist_entry(f[i]).ok }

InitBlocklist ==
    /\ blocklist \in { load_blocklist(f) : f \in ValidFiles }
    /\ zones = <<>>
    /\ cache = <<>>
    /\ now = 0
    /\ req = NoReq
    /\ reqAt = 0
    /\ out = NoOut
    /\ probe = NoProbe

Probe ==
    \E d \in Domains :
        /\ probe' = [domain |-> d, allowed |-> check_blocklist(blocklist, d)]
        /\ UNCHANGED <<blocklist, zones, cache, now, req, reqAt, out>>

NextBlocklist == Probe

SpecBlocklist == InitBlocklist /\ [][NextBlocklist]_vars

(***************************************************************************)
(* The header codec (header.rs).  Octets are 0..255; the u16 flags word    *)
(* is built with shifts and additions as to_bytes builds it and read back  *)
(* with masks as from_bytes reads it.                                      *)
(***************************************************************************)
Pow2(k) == 2 ^ k

\* x & y on naturals
RECURSIVE BitAnd(_, _)
BitAnd(x, y) ==
    IF x = 0 \/ y = 0 THEN 0
    ELSE (x % 2) * (y % 2) + 2 * BitAnd(x \div 2, y \div 2)

\* x << k in a u16, x >> k
Shl16(x, k) == (x * Pow2(k)) % 65536
Shr(x, k) == x \div Pow2(k)

BoolBit(b) == IF b THEN 1 ELSE 0

read_u16(bytes, at) == bytes[at] * 256 + bytes[at + 1]

ResponseCodes ==
    <<"NoError", "FormatError", "ServerError", "NameError", "NotImplemented", "Refused">>

\* ResponseCode::to_u8
to_u8(code) == CHOOSE i \in 0..5 : ResponseCodes[i + 1] = code

\* the opcode read without the shift
opcode_unshifted(byte) == BitAnd(byte, 120)

\* DnsHeader::opcode
opcode(byte) == Shr(BitAnd(byte, 120), 3)

\* to_bytes with the values added as they are stored
DnsHeader_to_bytes_unmasked(h) ==
    LET f1 == Shl16(BoolBit(h.is_response), 4)
        f2 == Shl16((f1 + h.opcode) % 65536, 1)
        f3 == Shl16((f2 + BoolBit(h.authoritative)) % 65536, 1)
        f4 == Shl16((f3 + BoolBit(h.truncated)) % 65536, 1)
        f5 == Shl16((f4 + BoolBit(h.recursion_desired)) % 65536, 1)
        f6 == Shl16((f5 + BoolBit(h.recursion_available)) % 65536, 3)
        f7 == Shl16((f6 + h.z) % 65536, 4)
        flags == (f7 + to_u8(h.response_code)) % 65536
    IN U16BE(h.tx_id) \o <<Shr(BitAnd(flags, 65280), 8), BitAnd(flags, 255)>>
        \o U16BE(h.questions_count) \o U16BE(h.answers_count)
        \o U16BE(h.authority_count) \o U16BE(h.additional_count)

\* header.rs 154-182
DnsHeader_to_bytes(h) ==
    LET f1 == Shl16(BoolBit(h.is_response), 4)
        f2 == Shl16((f1 + BitAnd(h.opcode, 15)) % 65536, 1)
        f3 == Shl16((f2 + BoolBit(h.authoritative)) % 65536, 1)
        f4 == Shl16((f3 + BoolBit(h.truncated)) % 65536, 1)
        f5 == Shl16((f4 + BoolBit(h.recursion_desired)) % 65536, 1)
        f6 == Shl16((f5 + BoolBit(h.recursion_available)) % 65536, 3)
        f7 == Shl16((f6 + BitAnd(h.z, 7)) % 65536, 4)
        flags == (f7 + BitAnd(to_u8(h.response_code), 15)) % 65536
    IN U16BE(h.tx_id) \o <<Shr(BitAnd(flags, 65280), 8), BitAnd(flags, 255)>>
        \o U16BE(h.questions_count) \o U16BE(h.answers_count)
        \o U16BE(h.authority_count) \o U16BE(h.additional_count)

\* header.rs 128-151; the unwrap of line 145 panics on a response code of 6..15
DnsHeader_from_bytes(bytes) ==
    LET flags == SubSeq(bytes, 3, 4)
        rcode == BitAnd(flags[2], 15)
    IN IF rcode > 5 THEN [kind |-> "panic", header |-> None, consumed |-> 0]
       ELSE [kind |-> "ok",
             header |->
                [tx_id |-> read_u16(bytes, 1),
                 is_response |-> BitAnd(flags[1], 128) > 0,
                 opcode |-> opcode(flags[1]),
                 authoritative |-> BitAnd(flags[1], 4) > 0,
                 truncated |-> BitAnd(flags[1], 2) > 0,
                 recursion_desired |-> BitAnd(flags[1], 1) > 0,
                 recursion_available |-> BitAnd(flags[2], 128) > 0,
                 z |-> Shr(BitAnd(flags[2], 112), 4),
                 response_code |-> ResponseCodes[rcode + 1],
                 questions_count |-> read_u16(bytes, 5),
                 answers_count |-> read_u16(bytes, 7),
                 authority_count |-> read_u16(bytes, 9),
                 additional_count |-> read_u16(bytes, 11)],
             consumed |-> 12]

\* the headers encoded: every opcode and reserved value of the wire width,
\* and u8 values beyond it
Opcodes == 0..15 \cup {16, 23, 255}
Reserved == 0..7 \cup {8, 32, 255}
\* transaction id with the four counts
HeaderNumbers == { <<0, 0, 0, 0, 0>>, <<48879, 1, 43981, 256, 2>> }

Headers ==
    { [tx_id |-> c[1], is_response |-> f[1], opcode |-> op, authoritative |-> f[2],
       truncated |-> f[3], recursion_desired |-> f[4], recursion_available |-> f[5],
       z |-> zz, response_code |-> rc,
       questions_count |-> c[2], answers_count |-> c[3],
       authority_count |-> c[4], additional_count |-> c[5]] :
        f \in [1..5 -> BOOLEAN], op \in Opcodes, zz \in Reserved,
        rc \in { ResponseCodes[i] : i \in 1..6 }, c \in HeaderNumbers }

NoBytes == [none |-> TRUE]
NoBack == [kind |-> "none"]

\* the pipeline is idle while the codec is exercised
Idle ==
    /\ blocklist = EmptyMap
    /\ zones = <<>>
    /\ cache = <<>>
    /\ now = 0
    /\ req = NoReq
    /\ reqAt = 0
    /\ out = NoOut

InitHeader ==
    /\ Idle
    /\ probe \in { [header |-> h, bytes |-> NoBytes, back |-> NoBack] : h \in Headers }

\* the header is encoded
HeaderToBytes ==
    /\ probe.bytes = NoBytes
    /\ probe' = [probe EXCEPT !.bytes = DnsHeader_to_bytes(probe.header)]
    /\ UNCHANGED <<blocklist, zones, cache, now, req, reqAt, out>>

\* the octets are decoded again
HeaderFromBytes ==
    /\ probe.bytes # NoBytes
    /\ probe.back = NoBack
    /\ probe' = [probe EXCEPT !.back = DnsHeader_from_bytes(probe.bytes)]
    /\ UNCHANGED <<blocklist, zones, cache, now, req, reqAt, out>>

NextHeader == HeaderToBytes \/ HeaderFromBytes

SpecHeader == InitHeader /\ [][NextHeader]_vars

(***************************************************************************)
(* The name codec (serialization.rs).  Offsets are those of the code,      *)
(* counted from 0; the octet at offset i of a buffer b is b[i + 1].         *)
(* A decode yields [kind, name, consumed]: "ok" for Ok((name, consumed)),  *)
(* "err" for Err(()), "panic" for an index out of bounds, "overflow" for   *)
(* a recursion that never returns, "u8 overflow" for the addition of line  *)
(* 72 leaving the u8 range (a panic or a wrapped value, by build profile). *)
(***************************************************************************)
\* u8 as char, on the characters the model uses; "?" is any other character
Chr(b) ==
    IF b \in 97..122 THEN Lower[b - 96]
    ELSE IF b \in 48..57 THEN Digits[b - 47]
    ELSE CASE b = 46 -> "."
           [] b = 58 -> ":"
           [] b = 64 -> "@"
           [] b = 42 -> "*"
           [] b = 32 -> " "
           [] OTHER -> "?"

NameOk(name, consumed) == [kind |-> "ok", name |-> name, consumed |-> consumed]
NameFail(kind) == [kind |-> kind, name |-> <<>>, consumed |-> 0]

\* len & 0xc0 == 0xc0
IsPointer(b) == BitAnd(b, 192) = 192

\* serialization.rs 97-101: the octets from offset ptr up to the next zero,
\* and a zero
CopyUntilZero(buf, ptr) ==
    LET zeros == { i \in ptr..(Len(buf) - 1) : buf[i + 1] = 0 }
    IN IF zeros = {} THEN [kind |-> "panic", bytes |-> <<>>]
       ELSE [kind |-> "ok", bytes |-> SubSeq(buf, ptr + 1, Min(zeros)) \o <<0>>]

\* the pointer followed inside the name's own octets
expand_pointers_local(packet_bytes, name_bytes) ==
    LET at == { i \in 0..(Len(name_bytes) - 1) : IsPointer(name_bytes[i + 1]) }
    IN IF at = {} THEN [kind |-> "ok", bytes |-> <<>>]
       ELSE LET idx == Min(at)
                hi == Shl16(BitAnd(name_bytes[idx + 1], 63), 8)
            IN IF idx + 1 >= Len(name_bytes) THEN [kind |-> "err", bytes |-> <<>>]
               ELSE CopyUntilZero(name_bytes, (hi + name_bytes[idx + 2]) % 65536)

\* serialization.rs 85-106
expand_pointers(packet_bytes, name_bytes) ==
    LET at == { i \in 0..(Len(name_bytes) - 1) : IsPointer(name_bytes[i + 1]) }
    IN IF at = {} THEN [kind |-> "ok", bytes |-> <<>>]
       ELSE LET idx == Min(at)
                hi == Shl16(BitAnd(name_bytes[idx + 1], 63), 8)
            IN IF idx + 1 >= Len(name_bytes) THEN [kind |-> "err", bytes |-> <<>>]
               ELSE CopyUntilZero(packet_bytes, (hi + name_bytes[idx + 2]) % 65536)

RECURSIVE DeserializeFrom(_, _, _)
RECURSIVE LabelLoop(_, _, _, _, _)

\* serialization.rs 39-47 and 55-63: the pointer is expanded and the copy
\* decoded by a recursive call; `seen` holds the arguments of the calls that
\* are still open
FollowPointer(packet_bytes, bytes, seen) ==
    LET e == expand_pointers(packet_bytes, bytes)
    IN IF e.kind = "err" THEN NameFail("err")
       ELSE IF e.kind = "panic" THEN NameFail("panic")
       ELSE DeserializeFrom(packet_bytes, e.bytes, seen \cup {bytes})

\* serialization.rs 52-81: the loop over the labels, at offset curr
LabelLoop(packet_bytes, bytes, curr, name, seen) ==
    IF curr >= Len(bytes) THEN NameFail("panic")
    ELSE LET len == bytes[curr + 1] IN
         IF IsPointer(len)
         THEN LET d == FollowPointer(packet_bytes, bytes, seen)
              IN IF d.kind = "ok" THEN NameOk(name \o d.name, curr + 2) ELSE NameFail(d.kind)
         ELSE LET from == curr + 1
                  to == (from % 256) + len
                  next == from + len
              IN IF to > 255 THEN NameFail("u8 overflow")
                 ELSE IF (to > from /\ to > Len(bytes)) \/ next >= Len(bytes)
                 THEN NameFail("panic")
                 ELSE LET label == [i \in 1..(IF to > from THEN to - from ELSE 0) |->
                                        Chr(bytes[from + i])]
                      IN IF bytes[next + 1] = 0
                         THEN NameOk(name \o label, next + 1)
                         ELSE LabelLoop(packet_bytes, bytes, next,
                                        name \o label \o <<".">>, seen)

\* serialization.rs 32-83
DeserializeFrom(packet_bytes, bytes, seen) ==
    IF bytes = <<>> THEN NameFail("panic")
    ELSE IF bytes \in seen THEN NameFail("overflow")
    ELSE IF IsPointer(bytes[1])
    THEN LET d == FollowPointer(packet_bytes, bytes, seen)
         IN IF d.kind = "ok" THEN NameOk(d.name, 2) ELSE NameFail(d.kind)
    ELSE LabelLoop(packet_bytes, bytes, 0, <<>>, seen)

deserialize_domain_from_bytes(packet_bytes, bytes) ==
    DeserializeFrom(packet_bytes, bytes, {})

\* labels and names of the codec runs
Label63 == [i \in 1..63 |-> "a"]
Label61 == [i \in 1..61 |-> "b"]
CodecLabels == { <<"a">>, <<"c","o","m">>, <<"f","o","o">>, <<"b","a","r">>, Label63 }

RECURSIVE Join(_)
Join(labels) ==
    IF Len(labels) = 1 THEN labels[1]
    ELSE labels[1] \o <<".">> \o Join(Tail(labels))

\* names of two and three labels, and one of 255 octets on the wire
CodecNames ==
    { Join(ls) : ls \in { q \in SeqsUpTo(CodecLabels, 3) : Len(q) >= 2 } }
        \cup { Join(<<Label63, Label63, Label63, Label61>>) }

FooBarCom == <<"f","o","o",".","b","a","r",".","c","o","m">>   \* "foo.bar.com"
BazCom == <<"b","a","z",".","c","o","m">>   \* "baz.com"

\* the length-prefixed labels of a name that goes on with a pointer
EncodeLabels(labels) ==
    Flatten([i \in 1..Len(labels) |-> <<Len(labels[i])>> \o as_bytes(labels[i])])

\* a two-octet pointer to offset t
PointerTo(t) == <<192 + (t \div 256), t % 256>>

\* a response: header, the question foo.bar.com at offset 12, an owner name
\* at offset 29 made of `before` and a pointer to `target`, a third name at
\* ThirdAt that is a pointer to offset 29, and baz.com at ForwardAt
SecondAt == 12 + Len(serialize_domain_to_bytes(FooBarCom)) + 4
PointerAt(before) == SecondAt + Len(EncodeLabels(before))
ThirdAt(before) == PointerAt(before) + 6
ForwardAt(before) == ThirdAt(before) + 6

PointerMessage(before, target) ==
    DnsHeader_to_bytes([DnsHeader_new EXCEPT !.tx_id = 48879, !.is_response = TRUE,
                                             !.questions_count = 1,
                                             !.answers_count = 2])
        \o serialize_domain_to_bytes(FooBarCom) \o <<0, 1, 0, 1>>
        \o EncodeLabels(before) \o PointerTo(target) \o <<0, 1, 0, 1>>
        \o PointerTo(SecondAt) \o <<0, 1, 0, 1>>
        \o serialize_domain_to_bytes(BazCom)

Befores == { <<>>, << <<"b","a","z">> >>, << <<"a">>, <<"b","a","r">> >> }

\* the name stored at an offset inside the question name
StoredAt(t) ==
    CASE t = 12 -> FooBarCom
      [] t = 16 -> <<"b","a","r",".","c","o","m">>
      [] t = 20 -> <<"c","o","m">>

\* pointers into the question name; `stored` is the name at the target
BackwardInputs(b) ==
    { [kind |-> "pointer", name |-> <<>>, packet |-> PointerMessage(b, t), at |-> a,
       before |-> IF a = SecondAt THEN b ELSE <<>>,
       pointer |-> IF a = SecondAt THEN PointerAt(b) ELSE a,
       target |-> IF a = SecondAt THEN t ELSE SecondAt,
       stored |-> IF a = SecondAt \/ b = <<>> THEN StoredAt(t)
                  ELSE Join(b) \o <<".">> \o StoredAt(t)] :
        t \in {12, 16, 20}, a \in {SecondAt, ThirdAt(b)} }

\* pointers to the start of their own name, to their own position, to the
\* name that follows and to a later name
ForwardInputs(b) ==
    { [kind |-> "pointer", name |-> <<>>, packet |-> PointerMessage(b, t), at |-> SecondAt,
       before |-> b, pointer |-> PointerAt(b), target |-> t, stored |-> <<>>] :
        t \in {SecondAt, PointerAt(b), ThirdAt(b), ForwardAt(b)} }

PlainInputs ==
    { [kind |-> "plain", name |-> n, packet |-> NoBytes, at |-> 0,
       before |-> <<>>, pointer |-> 0, target |-> 0, stored |-> <<>>] : n \in CodecNames }

\* names without a dot: single labels and the empty string
ShortNames == { Localhost, <<"a">>, <<"c","o","m">>, Label63, Empty }

ShortInputs ==
    { [kind |-> "short", name |-> n, packet |-> NoBytes, at |-> 0,
       before |-> <<>>, pointer |-> 0, target |-> 0, stored |-> <<>>] : n \in ShortNames }

InitName ==
    /\ Idle
    /\ probe \in { [input |-> i, back |-> NoBack] :
                      i \in PlainInputs \cup ShortInputs
                              \cup UNION { BackwardInputs(b) : b \in Befores }
                              \cup UNION { ForwardInputs(b) : b \in Befores } }

\* the name is encoded
SerializeName ==
    /\ probe.input.packet = NoBytes
    /\ probe' = [probe EXCEPT !.input.packet = serialize_domain_to_bytes(probe.input.name)]
    /\ UNCHANGED <<blocklist, zones, cache, now, req, reqAt, out>>

\* the name at offset `at` of the message is decoded
DeserializeName ==
    /\ probe.input.packet # NoBytes
    /\ probe.back = NoBack
    /\ probe' = [probe EXCEPT !.back =
            deserialize_domain_from_bytes(probe.input.packet,
                SubSeq(probe.input.packet, probe.input.at + 1, Len(probe.input.packet)))]
    /\ UNCHANGED <<blocklist, zones, cache, now, req, reqAt, out>>

NextName == SerializeName \/ DeserializeName

SpecName == InitName /\ [][NextName]_vars

(***************************************************************************)
(* The message codec (query.rs, answer.rs, packet.rs).  In this codec a    *)
(* question carries its type as the u16 of query.rs and a record its type  *)
(* as the ResourceType of answer.rs.                                       *)
(***************************************************************************)
U32BE(n) == U16BE(n \div 65536) \o U16BE(n % 65536)
read_u32(bytes, at) == read_u16(bytes, at) * 65536 + read_u16(bytes, at + 2)

\* ResourceType::as_u16
as_u16(t) == CASE t = "A" -> 1 [] t = "AAAA" -> 28 [] OTHER -> 0

\* TryInto<ResourceType> for u16
try_into_ResourceType(n) ==
    CASE n = 1 -> [ok |-> TRUE, value |-> "A"]
      [] n = 28 -> [ok |-> TRUE, value |-> "AAAA"]
      [] OTHER -> [ok |-> FALSE, value |-> "Unused"]

\* query.rs 68-76
DnsQuery_to_bytes(q) ==
    serialize_domain_to_bytes(q.name) \o U16BE(q.qtype) \o U16BE(q.class)

\* query.rs 41-52: the loop over the labels of a question name
RECURSIVE QueryLabelLoop(_, _, _)
QueryLabelLoop(bytes, curr, name) ==
    IF curr >= Len(bytes) THEN NameFail("panic")
    ELSE LET len == bytes[curr + 1]
             from == curr + 1
             to == (from % 256) + len
             next == from + len
         IN IF to > 255 THEN NameFail("u8 overflow")
            ELSE IF (to > from /\ to > Len(bytes)) \/ next >= Len(bytes)
            THEN NameFail("panic")
            ELSE LET label == [i \in 1..(IF to > from THEN to - from ELSE 0) |->
                                   Chr(bytes[from + i])]
                 IN IF bytes[next + 1] = 0
                    THEN NameOk(name \o label, next + 1)
                    ELSE QueryLabelLoop(bytes, next, name \o label \o <<".">>)

\* query.rs 33-65
DnsQuery_from_bytes(bytes) ==
    LET d == IF bytes = <<>> THEN NameFail("panic") ELSE QueryLabelLoop(bytes, 0, <<>>)
    IN IF d.kind # "ok" THEN [kind |-> d.kind, item |-> None, consumed |-> 0]
       ELSE IF d.consumed + 4 > Len(bytes)
       THEN [kind |-> "panic", item |-> None, consumed |-> 0]
       ELSE [kind |-> "ok",
             item |-> [name |-> d.name,
                       qtype |-> read_u16(bytes, d.consumed + 1),
                       class |-> read_u16(bytes, d.consumed + 3)],
             consumed |-> d.consumed + 4]

\* answer.rs 77-88
DnsAnswer_to_bytes(a) ==
    serialize_domain_to_bytes(a.name) \o U16BE(as_u16(a.qtype)) \o U16BE(a.class)
        \o U32BE(a.ttl) \o U16BE(a.data_length) \o a.rdata

\* answer.rs 46-62: the rdata and the octets counted for it
read_rdata(packet_bytes, bytes, qtype, at, data_length) ==
    IF qtype \in {"NS", "CName"}
    THEN LET d == deserialize_domain_from_bytes(packet_bytes, SubSeq(bytes, at + 1, Len(bytes)))
         IN IF d.kind = "ok"
            THEN [kind |-> "ok", rdata |-> serialize_domain_to_bytes(d.name),
                  consumed |-> d.consumed]
            ELSE [kind |-> "panic", rdata |-> <<>>, consumed |-> 0]
    ELSE IF at + data_length > Len(bytes)
    THEN [kind |-> "panic", rdata |-> <<>>, consumed |-> 0]
    ELSE [kind |-> "ok", rdata |-> SubSeq(bytes, at + 1, at + data_length),
          consumed |-> IF qtype = "AAAA" THEN 6 ELSE 4]

\* answer.rs 63-73: the record, once its rdata b has been read
AnswerWithRdata(bytes, d, qtype, b) ==
    IF b.kind # "ok" THEN [kind |-> b.kind, item |-> None, consumed |-> 0]
    ELSE [kind |-> "ok",
          item |-> [name |-> d.name,
                    qtype |-> qtype,
                    class |-> read_u16(bytes, d.consumed + 3),
                    ttl |-> read_u32(bytes, d.consumed + 5),
                    data_length |-> Len(b.rdata) % 65536,
                    rdata |-> b.rdata],
          consumed |-> d.consumed + 10 + b.consumed]

\* answer.rs 35-62: the fixed fields and the rdata, once the owner name d
\* has been read
AnswerAfterName(packet_bytes, bytes, d) ==
    IF d.kind # "ok" THEN [kind |-> d.kind, item |-> DnsAnswer_new, consumed |-> 0]
    ELSE IF d.consumed + 2 > Len(bytes)
    THEN [kind |-> "panic", item |-> None, consumed |-> 0]
    ELSE LET ty == try_into_ResourceType(read_u16(bytes, d.consumed + 1))
         IN IF ~ty.ok THEN [kind |-> "err", item |-> DnsAnswer_new, consumed |-> 0]
            ELSE IF d.consumed + 10 > Len(bytes)
            THEN [kind |-> "panic", item |-> None, consumed |-> 0]
            ELSE AnswerWithRdata(bytes, d, ty.value,
                    read_rdata(packet_bytes, bytes, ty.value, d.consumed + 10,
                               read_u16(bytes, d.consumed + 9)))

\* answer.rs 30-74
DnsAnswer_from_bytes(packet_bytes, bytes) ==
    AnswerAfterName(packet_bytes, bytes, deserialize_domain_from_bytes(packet_bytes, bytes))

\* packet.rs 88-98
DnsPacket_to_bytes(p) ==
    DnsHeader_to_bytes(p.header)
        \o Flatten([i \in 1..Len(p.queries) |-> DnsQuery_to_bytes(p.queries[i])])
        \o Flatten([i \in 1..Len(p.answers) |-> DnsAnswer_to_bytes(p.answers[i])])
        \o Flatten([i \in 1..Len(p.authority) |-> DnsAnswer_to_bytes(p.authority[i])])
        \o Flatten([i \in 1..Len(p.additional) |-> DnsAnswer_to_bytes(p.additional[i])])

RECURSIVE ReadSection(_, _, _, _, _)

\* packet.rs 55-58 (61-64, 67-70, 73-76): the item r just read is pushed and
\* the loop goes on behind it
PushItem(section, bytes, pos, n, acc, r) ==
    IF r.kind # "ok" THEN [kind |-> r.kind, items |-> acc, pos |-> pos]
    ELSE ReadSection(section, bytes, pos + r.consumed, n - 1, Append(acc, r.item))

\* packet.rs 54-77: n items read one after the other from offset pos;
\* section 1 reads questions, sections 2 to 4 read records
ReadSection(section, bytes, pos, n, acc) ==
    IF n = 0 THEN [kind |-> "ok", items |-> acc, pos |-> pos]
    ELSE PushItem(section, bytes, pos, n, acc,
            IF section = 1
            THEN DnsQuery_from_bytes(SubSeq(bytes, pos + 1, Len(bytes)))
            ELSE DnsAnswer_from_bytes(bytes, SubSeq(bytes, pos + 1, Len(bytes))))

\* the count the header gives for section 1 to 4
SectionCount(header, section) ==
    CASE section = 1 -> header.questions_count
      [] section = 2 -> header.answers_count
      [] section = 3 -> header.authority_count
      [] section = 4 -> header.additional_count

RECURSIVE ReadSections(_, _, _, _, _)

\* the section r just read is kept and the next one read behind it
KeepSection(bytes, header, section, read, r) ==
    IF r.kind # "ok" THEN [kind |-> r.kind, packet |-> None, consumed |-> 0]
    ELSE ReadSections(bytes, header, section + 1, r.pos, Append(read, r.items))

\* packet.rs 49-84: the four sections in order, then the packet
ReadSections(bytes, header, section, pos, read) ==
    IF section > 4
    THEN [kind |-> "ok",
          packet |-> [header |-> header, queries |-> read[1], answers |-> read[2],
                      authority |-> read[3], additional |-> read[4]],
          consumed |-> pos]
    ELSE KeepSection(bytes, header, section, read,
            ReadSection(section, bytes, pos, SectionCount(header, section), <<>>))

\* packet.rs 46-53: the sections behind the header h
PacketAfterHeader(bytes, h) ==
    IF h.kind # "ok" THEN [kind |-> h.kind, packet |-> None, consumed |-> 0]
    ELSE ReadSections(bytes, h.header, 1, h.consumed, <<>>)

\* packet.rs 44-86
DnsPacket_from_bytes(bytes) ==
    PacketAfterHeader(bytes,
        IF Len(bytes) < 12 THEN [kind |-> "panic", header |-> None, consumed |-> 0]
        ELSE DnsHeader_from_bytes(SubSeq(bytes, 1, 12)))

\* questions and records of the codec runs
WireQuery(name, qtype) == [name |-> name, qtype |-> qtype, class |-> 1]
RecordA(name, ttl) ==
    [DnsAnswer_new EXCEPT !.name = name, !.qtype = "A", !.ttl = ttl,
                          !.data_length = 4, !.rdata = <<222, 202, 251, 173>>]
RecordAAAA(name, ttl) ==
    [DnsAnswer_new EXCEPT !.name = name, !.qtype = "AAAA", !.ttl = ttl,
                          !.data_length = 16,
                          !.rdata = <<38, 7, 248, 176, 64, 9, 8, 17, 0, 0, 0, 0, 0, 0, 32, 14>>]

QuerySectionsOnWire ==
    { <<>>, <<WireQuery(FooCom, 1)>>, <<WireQuery(FooCom, 1), WireQuery(BarFooCom, 28)>> }
AnswerSectionsOnWire ==
    { <<>>, <<RecordA(FooCom, 300)>>, <<RecordAAAA(BarFooCom, 70000)>>,
      <<RecordA(FooCom, 300), RecordA(BarFooCom, 1)>>,
      <<RecordAAAA(BarFooCom, 70000), RecordA(FooCom, 300)>> }
AuthoritySectionsOnWire == { <<>>, <<RecordA(FooCom, 300)>> }
AdditionalSectionsOnWire == { <<>>, <<RecordA(BazFooCom, 60)>>, <<RecordAAAA(BazFooCom, 60)>> }

\* valid messages: every count is the length of its section
Messages ==
    { [header |-> [DnsHeader_new EXCEPT !.tx_id = 48879, !.is_response = TRUE,
                                        !.recursion_desired = TRUE,
                                        !.questions_count = Len(qs),
                                        !.answers_count = Len(an),
                                        !.authority_count = Len(au),
                                        !.additional_count = Len(ad)],
       queries |-> qs, answers |-> an, authority |-> au, additional |-> ad] :
        qs \in QuerySectionsOnWire, an \in AnswerSectionsOnWire,
        au \in AuthoritySectionsOnWire, ad \in AdditionalSectionsOnWire }

InitPacket ==
    /\ Idle
    /\ probe \in { [message |-> m, bytes |-> NoBytes, back |-> NoBack] : m \in Messages }

\* the message is encoded
PacketToBytes ==
    /\ probe.bytes = NoBytes
    /\ probe' = [probe EXCEPT !.bytes = DnsPacket_to_bytes(probe.message)]
    /\ UNCHANGED <<blocklist, zones, cache, now, req, reqAt, out>>

\* the octets are decoded again
PacketFromBytes ==
    /\ probe.bytes # NoBytes
    /\ probe.back = NoBack
    /\ probe' = [probe EXCEPT !.back = DnsPacket_from_bytes(probe.bytes)]
    /\ UNCHANGED <<blocklist, zones, cache, now, req, reqAt, out>>

NextPacket == PacketToBytes \/ PacketFromBytes

SpecPacket == InitPacket /\ [][NextPacket]_vars

(***************************************************************************)
(* default_resolver (resolvers.rs).  probe is the activation of the        *)
(* resolver: the question it was given, the server and the port of the     *)
(* current call, the number of datagrams sent so far, the response just    *)
(* decoded, and the packet returned once the outermost call returns.       *)
(* What a name server replies is not under the resolver's control: it is   *)
(* any of ServerResponses, so referrals may form a chain or a cycle.       *)
(***************************************************************************)
\* u8 to_string
ToDec(n) ==
    IF n < 10 THEN <<Digits[n + 1]>>
    ELSE IF n < 100 THEN <<Digits[(n \div 10) + 1], Digits[(n % 10) + 1]>>
    ELSE <<Digits[(n \div 100) + 1], Digits[((n \div 10) % 10) + 1], Digits[(n % 10) + 1]>>

\* resolvers.rs 40-42: Ipv4Addr::new(rdata[0..3]).to_string()
Ipv4_to_string(rdata) ==
    ToDec(rdata[1]) \o <<".">> \o ToDec(rdata[2]) \o <<".">> \o ToDec(rdata[3])
        \o <<".">> \o ToDec(rdata[4])

\* resolvers.rs 36-46: the additional records the two loops would follow,
\* in the order they visit them
Referrals(res) ==
    { <<i, j>> \in (1..Len(res.authority)) \X (1..Len(res.additional)) :
        res.authority[i].qtype = "NS" /\ res.additional[j].qtype = "A" }

FirstReferral(res) ==
    CHOOSE r \in Referrals(res) :
        \A o \in Referrals(res) : r[1] < o[1] \/ (r[1] = o[1] /\ r[2] <= o[2])

\* the records a name server may put in its reply to question q
NsRecord ==
    [DnsAnswer_new EXCEPT !.name = <<"c","o","m">>, !.qtype = "NS", !.ttl = 60,
                          !.data_length = 12,
                          !.rdata = serialize_domain_to_bytes(<<"n","s",".","f","o","o",".","c","o","m">>)]
GlueA(ip) ==
    [DnsAnswer_new EXCEPT !.name = <<"n","s",".","f","o","o",".","c","o","m">>,
                          !.qtype = "A", !.ttl = 60, !.data_length = 4, !.rdata = ip]
GlueAAAA ==
    [DnsAnswer_new EXCEPT !.name = <<"n","s",".","f","o","o",".","c","o","m">>,
                          !.qtype = "AAAA", !.ttl = 60, !.data_length = 16,
                          !.rdata = <<38, 7, 248, 176, 64, 9, 8, 17, 0, 0, 0, 0, 0, 0, 32, 14>>]
GlueAddresses == { <<10, 0, 0, 1>>, <<192, 5, 6, 30>> }
\* an address record of a host that no NS record of the reply names
StrayA ==
    [DnsAnswer_new EXCEPT !.name = AdsExampleCom,
                          !.qtype = "A", !.ttl = 60, !.data_length = 4,
                          !.rdata = <<203, 0, 113, 7>>]

ServerResponses(r) ==
    { [header |-> [r.header EXCEPT !.is_response = TRUE,
                                   !.answers_count = Len(an),
                                   !.authority_count = Len(au),
                                   !.additional_count = Len(ad)],
       queries |-> r.queries, answers |-> an, authority |-> au, additional |-> ad] :
        an \in { <<>>, <<[stub_resolver(r).answers[1] EXCEPT !.ttl = 60]>> },
        au \in { <<>>, <<NsRecord>> },
        ad \in { <<>>, <<GlueAAAA>>, <<StrayA>> } \cup { <<GlueA(ip)>> : ip \in GlueAddresses } }

NoRes == [none |-> TRUE]
ResolverRequests ==
    { Request(48879, 0, 1, <<Question(n, "A")>>) : n \in {ACom, BazFooCom} }

\* client.rs 161: the resolver is entered with the root server and port 40000
InitResolver ==
    /\ Idle
    /\ probe \in { [req |-> r, host |-> RootHost, listen_port |-> 40000, queries |-> 0,
                     status |-> "call", res |-> NoRes, result |-> NoRes] :
                      r \in ResolverRequests }

\* resolvers.rs 26-28: the call binds its port and sends the request to host
Send ==
    /\ probe.status = "call"
    /\ probe.queries < MaxHops
    /\ probe' = [probe EXCEPT !.status = "sent", !.queries = @ + 1, !.res = NoRes]
    /\ UNCHANGED <<blocklist, zones, cache, now, req, reqAt, out>>

\* resolvers.rs 29-48: the reply is decoded; the call goes on with the first
\* A record of the additional section if the authority section holds an NS
\* record, and returns the reply otherwise
Receive ==
    /\ probe.status = "sent"
    /\ \E res \in ServerResponses(probe.req) :
        /\ probe' =
              IF Referrals(res) # {}
              THEN [probe EXCEPT
                      !.res = res,
                      !.host = Ipv4_to_string(res.additional[FirstReferral(res)[2]].rdata),
                      !.listen_port = @ + 1,
                      !.status = "call"]
              ELSE [probe EXCEPT !.res = res, !.result = res, !.status = "returned"]
        /\ UNCHANGED <<blocklist, zones, cache, now, req, reqAt, out>>

NextResolver == Send \/ Receive

SpecResolver == InitResolver /\ [][NextResolver]_vars

(***************************************************************************)
(* Zone loading (authority.rs): Authority::new_from_yaml applied to zone   *)
(* documents.  A document is [ttl, origin, records]; ttl is <<n>> or, when *)
(* the key is absent, <<>>.  probe = [yaml, loaded].                       *)
(***************************************************************************)
MaxRecords == 3

Authority_new == [default_ttl |-> 0, origin |-> Empty, records |-> <<>>]

\* Authority::new_from_yaml: "ok" with the zone, or "panic"
new_from_yaml(yaml) ==
    IF yaml.ttl = <<>>
    THEN [kind |-> "panic", authority |-> Authority_new]
    ELSE LET authority == [default_ttl |-> yaml.ttl[1], origin |-> yaml.origin,
                           records |-> yaml.records]
         IN IF check_has_one_authority_record(authority)
            THEN [kind |-> "ok", authority |-> authority]
            ELSE [kind |-> "panic", authority |-> Authority_new]

\* the records of the zone documents
YamlRecords ==
    { Rec(<<"b","a","r">>, 60, "StartOfAuthority", SoaData),
      Rec(<<"b","a","z">>, 30, "StartOfAuthority", SoaData),
      Rec(<<"b","a","z">>, 30, "A", [kind |-> "A", value |-> <<"1","0",".","0",".","0",".","1">>]),
      Rec(<<"b","a","z">>, 30, "NS", [kind |-> "NS", value |-> <<"n","s",".","f","o","o",".","c","o","m">>]) }

YamlDocuments ==
    { [ttl |-> t, origin |-> o, records |-> r] :
        t \in { <<>>, <<60>> }, o \in {FooCom, AdsCom},
        r \in SeqsUpTo(YamlRecords, MaxRecords) }

NotLoaded == [kind |-> "none", authority |-> Authority_new]

InitAuthority ==
    /\ Idle
    /\ probe \in { [yaml |-> y, loaded |-> NotLoaded] : y \in YamlDocuments }

\* the zone document is loaded
LoadZone ==
    /\ probe.loaded = NotLoaded
    /\ probe' = [probe EXCEPT !.loaded = new_from_yaml(probe.yaml)]
    /\ UNCHANGED <<blocklist, zones, cache, now, req, reqAt, out>>

NextAuthority == LoadZone

SpecAuthority == InitAuthority /\ [][NextAuthority]_vars

(***************************************************************************)
(* DnsHeader::from_bytes applied to twelve octets as they arrive from the  *)
(* network, every value of the second flags octet included.                *)
(* probe = [bytes, back].                                                  *)
(***************************************************************************)
\* first flags octets: 0x00, 0x48 (header.rs 350), 0x85, 0xff
FirstFlagOctets == {0, 72, 133, 255}

RawHeaders ==
    { <<255, 255, f1, f2, 0, 1, 0, 0, 0, 0, 0, 0>> :
        f1 \in FirstFlagOctets, f2 \in 0..255 }

InitRawHeader ==
    /\ Idle
    /\ probe \in { [bytes |-> b, back |-> NoBack] : b \in RawHeaders }

NextRawHeader == HeaderFromBytes

SpecRawHeader == InitRawHeader /\ [][NextRawHeader]_vars

(***************************************************************************)
(* The decoders applied to octets as they arrive from the network:         *)
(* DnsAnswer::from_bytes to single resource records (answer.rs) and        *)
(* DnsPacket::from_bytes to whole and cut-off messages (packet.rs).        *)
(* probe = [what, tag, bytes, type, rdata, wire, back]: `wire` is the      *)
(* length of the record (of the whole message) on the wire, `type` and     *)
(* `rdata` the type code and the rdata octets of a record.                 *)
(***************************************************************************)
\* a resource record as RFC 1035 3.2.1 lays it out (answer.rs 120-127)
WireRecord(name, code, ttl, rdata) ==
    serialize_domain_to_bytes(name) \o U16BE(code) \o U16BE(1) \o U32BE(ttl)
        \o U16BE(Len(rdata)) \o rdata

Ipv4Octets == <<222, 202, 251, 173>>
Ipv6Octets == <<38, 7, 248, 176, 64, 9, 8, 17, 0, 0, 0, 0, 0, 0, 32, 14>>

\* type codes the decoder is to support, with the rdata of each
SupportedRdata ==
    { <<1, Ipv4Octets>>, <<28, Ipv6Octets>>,
      <<2, serialize_domain_to_bytes(BazFooCom)>>,
      <<5, serialize_domain_to_bytes(BazCom)>> }

\* other type codes (MX, TXT, 99, and 0xabcd of packet.rs 250) with rdata of
\* 0, 4 and 5 octets
UnknownRdata ==
    { <<code, rdata>> : code \in {15, 16, 99, 43981},
                        rdata \in { <<>>, Ipv4Octets, <<104, 101, 108, 108, 111>> } }

\* what follows the record in the buffer: nothing, or another record
Trailers == { <<>>, WireRecord(BarFooCom, 1, 1, Ipv4Octets) }

RecordInput(tag, name, tr, trailer) ==
    [what |-> "record", tag |-> tag,
     bytes |-> WireRecord(name, tr[1], 300, tr[2]) \o trailer,
     type |-> tr[1], rdata |-> tr[2],
     wire |-> Len(WireRecord(name, tr[1], 300, tr[2])),
     back |-> NoBack]

RecordInputs ==
    { RecordInput("supported", n, tr, t) :
        n \in {FooCom, FooBarCom}, tr \in SupportedRdata, t \in Trailers }
      \cup
    { RecordInput("unknown", n, tr, t) :
        n \in {FooCom, FooBarCom}, tr \in UnknownRdata, t \in Trailers }

\* the header of a message: transaction id 0xbeef and the four counts
WireHeader(qc, an, au, ad) ==
    DnsHeader_to_bytes([DnsHeader_new EXCEPT !.tx_id = 48879, !.is_response = an + au + ad > 0,
                                             !.questions_count = qc, !.answers_count = an,
                                             !.authority_count = au, !.additional_count = ad])

WireQuestion == DnsQuery_to_bytes(WireQuery(FooCom, 1))

\* a query, and a response with a question, an A answer and an A additional
QueryMessage == WireHeader(1, 0, 0, 0) \o WireQuestion
ResponseMessage ==
    WireHeader(1, 1, 0, 1) \o WireQuestion
        \o WireRecord(FooCom, 1, 300, Ipv4Octets)
        \o WireRecord(BazFooCom, 1, 60, Ipv4Octets)

Prefixes(b) == { SubSeq(b, 1, n) : n \in 0..(Len(b) - 1) }

MessageInput(tag, bytes, wire) ==
    [what |-> "message", tag |-> tag, bytes |-> bytes, type |-> 0, rdata |-> <<>>,
     wire |-> wire, back |-> NoBack]

MessageInputs ==
    { MessageInput("whole", b, Len(b)) : b \in {QueryMessage, ResponseMessage} }
      \cup
    \* a message cut off before its end
    { MessageInput("cut", b, Len(QueryMessage)) : b \in Prefixes(QueryMessage) }
      \cup
    { MessageInput("cut", b, Len(ResponseMessage)) : b \in Prefixes(ResponseMessage) }
      \cup
    \* a header that announces more questions than the buffer holds
    { MessageInput("cut", WireHeader(2, 0, 0, 0) \o WireQuestion,
                   12 + 2 * Len(WireQuestion)) }
      \cup
    \* two answers, the first of type A or AAAA
    { MessageInput("several", b, Len(b)) :
        b \in { WireHeader(0, 2, 0, 0) \o WireRecord(FooCom, tr[1], 300, tr[2])
                    \o WireRecord(BarFooCom, 1, 1, Ipv4Octets) :
                tr \in { <<1, Ipv4Octets>>, <<28, Ipv6Octets>> } } }
      \cup
    \* a question and an answer of another type
    { MessageInput("opaque", b, Len(b)) :
        b \in { WireHeader(1, 1, 0, 0) \o WireQuestion
                    \o WireRecord(FooCom, tr[1], 300, tr[2]) : tr \in UnknownRdata } }

InitWire ==
    /\ Idle
    /\ probe \in RecordInputs \cup MessageInputs

\* the record at the start of the buffer is decoded
AnswerFromBytes ==
    /\ probe.what = "record"
    /\ probe.back = NoBack
    /\ probe' = [probe EXCEPT !.back = DnsAnswer_from_bytes(probe.bytes, probe.bytes)]
    /\ UNCHANGED <<blocklist, zones, cache, now, req, reqAt, out>>

\* the datagram is decoded
MessageFromBytes ==
    /\ probe.what = "message"
    /\ probe.back = NoBack
    /\ probe' = [probe EXCEPT !.back = DnsPacket_from_bytes(probe.bytes)]
    /\ UNCHANGED <<blocklist, zones, cache, now, req, reqAt, out>>

NextWire == AnswerFromBytes \/ MessageFromBytes

SpecWire == InitWire /\ [][NextWire]_vars

(***************************************************************************)
(* Properties.                                                             *)
(***************************************************************************)
Handled == req # NoReq
Standard == Handled /\ req.header.opcode = 0
\* a standard request with one question, as the decoder builds it
Single == Standard /\ req.header.questions_count = 1 /\ Len(req.queries) = 1
Q == req.queries[1]
Labels == split(Q.name, ".")
\* the cache is not written by results(): it is as it was when the call began
CachedAtStart == contains_key(cache, reqAt, Q)
CachedAtEnd == contains_key(cache, now, Q)
\* the zone records that match the question, as (zone index, record index)
ZoneMatches ==
    { zr \in UNION { { <<i, j>> : j \in 1..Len(zones[i].records) } : i \in 1..Len(zones) } :
        LET z == zones[zr[1]]
            rec == z.records[zr[2]]
            zl == split(z.origin, ".")
        IN /\ zl[Len(zl)] = Labels[Len(Labels)]
           /\ rec.name \o <<".">> \o z.origin = Q.name
           /\ rec.rec_type = Q.qtype }
Earlier(a, b) == a[1] < b[1] \/ (a[1] = b[1] /\ a[2] < b[2])
EmptySections(p) ==
    p.queries = <<>> /\ p.answers = <<>> /\ p.authority = <<>> /\ p.additional = <<>>

\* C1: a request whose opcode is not 0 (inverse, or any other value) gets a
\* response with the response flag set, NotImplemented and four empty
\* sections, whatever its questions, the cache, the blocklist and the zones
\* hold, and the resolver is not invoked.
C1_NonStandardOpcodeNotImplemented ==
    (Handled /\ req.header.opcode # 0) =>
        /\ out.kind = "ok"
        /\ out.packet.header.is_response
        /\ out.packet.header.response_code = "NotImplemented"
        /\ EmptySections(out.packet)
        /\ out.calls = <<>>

C1_Witness ==
    /\ Handled /\ req.header.opcode = 15 /\ req.queries = <<Question(XAdsCom, "A")>>
    /\ contains_key(cache, reqAt, Question(XAdsCom, "A"))
    /\ DOMAIN blocklist # {} /\ zones # <<>>
    /\ out.kind = "ok" /\ out.packet.header.response_code = "NotImplemented"

\* C2: a standard request whose questions_count is not exactly 1 (0, or 2 and
\* more) gets NotImplemented, and cache, blocklist, zones and resolver are
\* not consulted.
C2_QuestionCountNotOneNotImplemented ==
    (Standard /\ req.header.questions_count # 1) =>
        /\ out.kind = "ok"
        /\ out.packet.header.response_code = "NotImplemented"
        /\ out.trace = <<>>
        /\ out.calls = <<>>

\* C3: a standard single-question request whose question is a key of the
\* cache gets a response whose answer section is exactly the cached record,
\* with the response flag set and the request's transaction id.
C3_CacheHitResponse ==
    (Single /\ CachedAtStart /\ CachedAtEnd) =>
        /\ out.kind = "ok"
        /\ out.packet.answers = <<cache_get(cache, now, Q)>>
        /\ out.packet.header.is_response
        /\ out.packet.header.tx_id = req.header.tx_id

\* C4: a standard single-question request that misses the cache and whose
\* name has fewer than two labels gets a response with the response flag set
\* and NameError; blocklist, zones and resolver are not consulted.
C4_FewLabelsNameError ==
    (Single /\ ~CachedAtStart /\ Len(Labels) < 2) =>
        /\ out.kind = "ok"
        /\ out.packet.header.is_response
        /\ out.packet.header.response_code = "NameError"
        /\ out.trace = <<"cache", "labels">>
        /\ out.calls = <<>>

C4_Witness ==
    /\ Single /\ ~CachedAtStart /\ Q.name = Localhost
    /\ DOMAIN blocklist # {} /\ zones # <<>>
    /\ out.kind = "ok" /\ out.packet.header.response_code = "NameError"

\* C5: a standard single-question request that misses the cache, has at least
\* two labels and is blocked yields no response at all (the drop outcome),
\* and the resolver is never invoked for it.
C5_BlockedNameDropped ==
    (Single /\ ~CachedAtStart /\ Len(Labels) >= 2
            /\ ~check_blocklist(blocklist, Q.name)) =>
        /\ out.kind = "drop"
        /\ out.calls = <<>>
        /\ \A i \in 1..Len(out.trace) : out.trace[i] \notin {"zones", "resolver"}

C5_Witness ==
    /\ Single /\ ~CachedAtStart /\ Q = Question(XAdsCom, "A")
    /\ blocklist = load_blocklist(<<StarAdsCom, ACom>>)
    /\ ZoneMatches # {}
    /\ out.kind = "drop"

\* C6: with the blocklist whose only entry is *.ads.com, check_blocklist
\* blocks x.ads.com and y.x.ads.com and does not block ads.com or notads.com.
C6_WildcardBlocksOnlyProperSubdomains ==
    (blocklist = load_blocklist(<<StarAdsCom>>) /\ probe # NoProbe) =>
        /\ probe.domain \in {XAdsCom, YXAdsCom} => ~probe.allowed
        /\ probe.domain \in {AdsCom, NotAdsCom} => probe.allowed

\* C6, as the code has it: with the blocklist whose only entry is *.ads.com
\* (stored as ads.com with the wildcard flag), check_blocklist blocks
\* x.ads.com, y.x.ads.com and ads.com itself, and does not block notads.com
\* nor any name outside ads.com.
C6_WildcardBlocksSuffixAndSubdomains ==
    (blocklist = load_blocklist(<<StarAdsCom>>) /\ probe # NoProbe) =>
        /\ blocklist = [k \in {AdsCom} |-> TRUE]
        /\ ~probe.allowed <=> probe.domain \in {AdsCom, XAdsCom, YXAdsCom}

C6_Witness ==
    /\ blocklist = load_blocklist(<<StarAdsCom>>)
    /\ probe # NoProbe /\ probe.domain = YXAdsCom /\ ~probe.allowed

\* C7: a blocklist of non-wildcard entries blocks exactly the names equal to
\* an entry: with {a.com}, a.com is blocked and x.a.com and every other name
\* is not.
C7_PlainEntryBlocksOnlyItself ==
    (probe # NoProbe /\ \A k \in DOMAIN blocklist : ~blocklist[k]) =>
        /\ ~probe.allowed <=> probe.domain \in DOMAIN blocklist
        /\ blocklist = load_blocklist(<<ACom>>) =>
              (~probe.allowed <=> probe.domain = ACom)

C7_Witness ==
    /\ blocklist = load_blocklist(<<ACom>>)
    /\ probe # NoProbe /\ probe.domain = XACom /\ probe.allowed

\* C8: a standard single-question request that misses the cache, has at least
\* two labels, is not blocked and matches a zone record gets a response with
\* the response flag and the authoritative flag set, answers_count 1, the
\* request's transaction id and question, and one answer built from the first
\* matching record in configured order: its TTL, its rdata encoded per type
\* (A: 4 octets, AAAA: 16 octets), data_length the rdata length; the resolver
\* is not invoked.
C8_ZoneAnswer ==
    (Single /\ ~CachedAtStart /\ Len(Labels) >= 2
            /\ check_blocklist(blocklist, Q.name) /\ ZoneMatches # {}) =>
        LET first == CHOOSE m \in ZoneMatches :
                        \A o \in ZoneMatches : o = m \/ Earlier(m, o)
            rec == zones[first[1]].records[first[2]]
        IN /\ out.kind = "ok"
           /\ out.calls = <<>>
           /\ out.packet.header.is_response
           /\ out.packet.header.authoritative
           /\ out.packet.header.answers_count = 1
           /\ out.packet.header.tx_id = req.header.tx_id
           /\ out.packet.queries = req.queries
           /\ Len(out.packet.answers) = 1
           /\ LET ans == out.packet.answers[1]
              IN /\ ans.name = Q.name
                 /\ ans.qtype = Q.qtype
                 /\ ans.ttl = rec.ttl
                 /\ ans.data_length = Len(ans.rdata)
                 /\ Q.qtype = "A" => Len(ans.rdata) = 4
                 /\ Q.qtype = "AAAA" => Len(ans.rdata) = 16
                 /\ Q = Question(BazFooCom, "A") =>
                        ans.rdata = <<12, 34, 56, 78>> /\ ans.ttl = 30
                 /\ Q = Question(BazFooCom, "AAAA") =>
                        ans.rdata = <<38, 7, 248, 176, 64, 9, 8, 17,
                                      0, 0, 0, 0, 0, 0, 32, 14>>
                 /\ Q = Question(BazFooCom, "CName") =>
                        ans.rdata = <<3, 98, 108, 97, 3, 99, 111, 109, 0>>

C8_Witness ==
    /\ Single /\ ~CachedAtStart /\ Q = Question(BazFooCom, "A")
    /\ req.header.tx_id = 48879
    /\ Cardinality(ZoneMatches) = 2
    /\ out.kind = "ok" /\ out.packet.header.authoritative

\* C9: a standard single-question request that misses the cache, has at least
\* two labels, is not blocked and matches no zone record is handed to the
\* resolver with the root address, and the result is the resolver's response
\* unchanged except that its transaction id is the request's.
C9_ResolverResponseCarriesRequestTxId ==
    (Single /\ ~CachedAtStart /\ Len(Labels) >= 2
            /\ check_blocklist(blocklist, Q.name) /\ ZoneMatches = {}) =>
        /\ out.kind = "ok"
        /\ Len(out.calls) = 1
        /\ out.calls[1].host = RootHost
        /\ out.calls[1].req = req
        /\ out.packet = [out.calls[1].ret EXCEPT !.header.tx_id = req.header.tx_id]

\* the entries physically in the cache under the question
EntriesOfQ == { i \in 1..Len(cache) : cache[i].key = Q }

\* C10: an entry inserted with TTL t is not served once more than t has gone
\* by since its insertion: a request for its key after expiry is handled as a
\* miss (it goes on to the label-count step) although the entry is still
\* physically in the cache; a request handled before expiry is answered with
\* the inserted record.
C10_ExpiredEntryNotServed ==
    Single =>
        \A i \in EntriesOfQ :
            /\ reqAt > cache[i].expires =>
                  /\ Len(out.trace) >= 2
                  /\ out.trace[1] = "cache" /\ out.trace[2] = "labels"
            /\ now <= cache[i].expires =>
                  /\ out.kind = "ok"
                  /\ out.trace = <<"cache">>
                  /\ out.packet.answers = <<cache[i].value>>
            /\ (out.kind = "ok" /\ out.trace = <<"cache">>) =>
                  /\ now <= cache[i].expires
                  /\ out.packet.answers = <<cache[i].value>>

C10_Witness ==
    /\ Single /\ Q = Question(XAdsCom, "A")
    /\ \E i \in EntriesOfQ : reqAt > cache[i].expires
    /\ out.kind = "ok" /\ Len(out.calls) = 1

\* C11: after a request has been resolved successfully through the resolver
\* (the resolver was invoked and returned an answer), that answer is in the
\* cache under the request's question, so that an identical request arriving
\* before the TTL elapses does not reach the resolver again.
C11_ResolvedAnswerCached ==
    (Single /\ out.kind = "ok" /\ Len(out.calls) = 1
        /\ out.packet.answers # <<>> /\ out.packet.answers[1].ttl > 0) =>
        /\ cache_get(cache, now, Q) = out.packet.answers[1]
        /\ ~ReachesResolver(req, now, 0)

InRange(h) ==
    /\ h.opcode \in 0..15 /\ h.z \in 0..7
    /\ h.response_code \in { ResponseCodes[i] : i \in 1..6 }
Encoded == probe.back # NoBack

\* the flags word laid out response(1) opcode(4) authoritative(1) truncated(1)
\* rd(1) ra(1) reserved(3) rcode(4), most significant bit first
FlagsWord(h) ==
    32768 * BoolBit(h.is_response) + 2048 * h.opcode
        + 1024 * BoolBit(h.authoritative) + 512 * BoolBit(h.truncated)
        + 256 * BoolBit(h.recursion_desired) + 128 * BoolBit(h.recursion_available)
        + 16 * h.z + to_u8(h.response_code)

\* C13: for every header with opcode in 0..15, reserved in 0..7 and one of the
\* six response codes, from_bytes(to_bytes(h)) is h with 12 octets consumed,
\* and to_bytes(h) is twelve octets, big-endian, whose flags word is laid out
\* response(1) opcode(4) authoritative(1) truncated(1) rd(1) ra(1)
\* reserved(3) rcode(4) from the most significant bit.
C13_HeaderRoundTrip ==
    (Encoded /\ InRange(probe.header)) =>
        /\ probe.back.kind = "ok"
        /\ probe.back.header = probe.header
        /\ probe.back.consumed = 12
        /\ Len(probe.bytes) = 12
        /\ probe.bytes[1] * 256 + probe.bytes[2] = probe.header.tx_id
        /\ probe.bytes[3] * 256 + probe.bytes[4] = FlagsWord(probe.header)
        /\ probe.bytes[5] * 256 + probe.bytes[6] = probe.header.questions_count
        /\ probe.bytes[7] * 256 + probe.bytes[8] = probe.header.answers_count
        /\ probe.bytes[9] * 256 + probe.bytes[10] = probe.header.authority_count
        /\ probe.bytes[11] * 256 + probe.bytes[12] = probe.header.additional_count

C13_Witness ==
    /\ Encoded /\ probe.header.opcode = 15 /\ probe.header.z = 5
    /\ probe.header.is_response /\ ~probe.header.authoritative
    /\ probe.header.response_code = "Refused" /\ probe.header.tx_id = 48879
    /\ probe.back.kind = "ok" /\ probe.back.header = probe.header
    /\ probe.bytes[3] = 248

\* the header with its over-wide fields reduced to their wire widths
Reduced(h) == [h EXCEPT !.opcode = @ % 16, !.z = @ % 8]

\* C14: for every stored u8 value V of the reserved field (3 bits on the
\* wire) and of the opcode (4 bits), and every response code (4 bits),
\* to_bytes gives the twelve octets of the header with V mod 2^width in that
\* field, and every other flag and field is encoded unchanged.
C14_OverWideFieldsAreMasked ==
    Encoded =>
        /\ probe.bytes = DnsHeader_to_bytes(Reduced(probe.header))
        /\ probe.bytes[3] * 256 + probe.bytes[4] = FlagsWord(Reduced(probe.header))
        /\ probe.back.kind = "ok"
        /\ probe.back.header = Reduced(probe.header)

C14_Witness ==
    /\ Encoded /\ probe.header.z = 8 /\ probe.header.opcode = 16
    /\ probe.header.response_code = "Refused"
    /\ ~probe.header.recursion_available /\ ~probe.header.is_response
    /\ probe.bytes[3] < 128 /\ probe.bytes[4] = 5
    /\ probe.back.kind = "ok" /\ probe.back.header.response_code = "Refused"

Decoded == probe.back # NoBack
In == probe.input

\* C15: a name that goes on with a compression pointer decodes to the labels
\* read before the pointer followed by the name stored at the pointer's
\* offset in the whole message, and consumes the octets before the pointer
\* plus 2; a name that is only a pointer decodes to the pointed-to name and
\* consumes 2 octets.
C15_PointerDecode ==
    (Decoded /\ In.kind = "pointer" /\ In.target < In.pointer /\ In.target # In.at) =>
        /\ probe.back.kind = "ok"
        /\ probe.back.name =
              IF In.before = <<>> THEN In.stored
              ELSE Join(In.before) \o <<".">> \o In.stored
        /\ probe.back.consumed = (In.pointer - In.at) + 2

C15_Witness ==
    /\ Decoded /\ In.kind = "pointer" /\ In.target = 16 /\ In.at = SecondAt
    /\ In.before = << <<"a">>, <<"b","a","r">> >>
    /\ probe.back = NameOk(<<"a",".","b","a","r",".","b","a","r",".","c","o","m">>, 8)

\* C16: decoding a name whose pointer targets an offset at or beyond the
\* pointer's own position (the pointer itself included) fails with
\* FormatError, and no decode recurses without bound.
C16_ForwardPointerRejected ==
    /\ (Decoded /\ In.kind = "pointer" /\ In.target >= In.pointer) =>
            probe.back.kind = "err"
    /\ Decoded => probe.back.kind # "overflow"

\* the offset of label i in the encoding of a name
LabelAt(labels, i) == Len(EncodeLabels(SubSeq(labels, 1, i - 1)))

C12_PacketRoundTrip ==
    Decoded =>
        /\ probe.back.kind = "ok"
        /\ probe.back.packet = probe.message
        /\ probe.back.consumed = Len(probe.bytes)
        /\ DnsPacket_to_bytes(probe.back.packet) = probe.bytes

\* the same for the messages whose records are all of type A
ARecordsRoundTrip ==
    (Decoded /\ \A sec \in {probe.message.answers, probe.message.authority,
                             probe.message.additional} :
                    \A i \in 1..Len(sec) : sec[i].qtype = "A") =>
        /\ probe.back.kind = "ok"
        /\ probe.back.packet = probe.message
        /\ probe.back.consumed = Len(probe.bytes)
        /\ DnsPacket_to_bytes(probe.back.packet) = probe.bytes

Received == probe.res # NoRes
\* the reply carries an answer record for the question
AnswersQuestion(res) ==
    \E i \in 1..Len(res.answers) :
        /\ res.answers[i].name = probe.req.queries[1].name
        /\ res.answers[i].qtype = probe.req.queries[1].qtype
\* the reply carries an NS record and an address record to reach it
HasGlue(res) ==
    /\ \E i \in 1..Len(res.authority) : res.authority[i].qtype = "NS"
    /\ \E j \in 1..Len(res.additional) : res.additional[j].qtype \in {"A", "AAAA"}

\* C18: when a name server's reply carries an answer to the question, the
\* resolver returns that reply and sends no further query, whatever the
\* authority and additional sections of the reply hold.
C18_AnswerIsTerminal ==
    (Received /\ AnswersQuestion(probe.res)) =>
        /\ probe.status = "returned"
        /\ probe.result = probe.res

\* C19: when a reply has no answer to the question and no usable glue (no NS
\* record in the authority section, or no address record in the additional
\* section), the resolver's result is a ServerError failure.
C19_NoGlueIsServerError ==
    (Received /\ ~AnswersQuestion(probe.res) /\ ~HasGlue(probe.res)) =>
        /\ probe.status = "returned"
        /\ probe.result.header.response_code = "ServerError"

\* C20: on every chain of referrals the resolver sends at most 16 queries,
\* one per hop.
C20_AtMostSixteenQueries == probe.queries <= 16

SoaCount(records) ==
    Cardinality({ i \in 1..Len(records) : records[i].rec_type = "StartOfAuthority" })

\* C22: Authority::new_from_yaml accepts a zone only if its records hold
\* exactly one SOA record: a zone with no SOA record, or with two or more,
\* fails loading (the process panics); an accepted zone keeps the document's
\* origin, ttl and records.
C22_ExactlyOneSoa ==
    (probe # NoProbe /\ "loaded" \in DOMAIN probe /\ probe.loaded # NotLoaded) =>
        /\ probe.loaded.kind = "ok" => SoaCount(probe.yaml.records) = 1
        /\ SoaCount(probe.yaml.records) # 1 => probe.loaded.kind = "panic"
        /\ (SoaCount(probe.yaml.records) = 1 /\ probe.yaml.ttl # <<>>) =>
              /\ probe.loaded.kind = "ok"
              /\ probe.loaded.authority.records = probe.yaml.records
              /\ probe.loaded.authority.origin = probe.yaml.origin

C22_Witness ==
    /\ probe # NoProbe /\ "loaded" \in DOMAIN probe
    /\ probe.loaded.kind = "panic"
    /\ SoaCount(probe.yaml.records) = 2
    /\ Len(probe.yaml.records) = 3
    /\ probe.yaml.ttl = <<60>>

Blocked == ~check_blocklist(blocklist, Q.name)

\* C23: a standard single-question request passes the steps in the fixed
\* order cache, label count, blocklist, zones, resolver, and the first step
\* that applies decides: a cached question is decided by the cache step even
\* if its name has one label or is blocked (and is answered with the cached
\* record while the entry lasts); an uncached name with fewer than two labels
\* gets NameError; an uncached blocked name is dropped even if a zone record
\* matches it; an uncached, unblocked name with a matching zone record is
\* answered from the zone; the resolver is invoked if and only if none of
\* the four earlier steps applied.
C23_FixedStepOrder ==
    Single =>
        /\ CachedAtStart =>
              /\ out.trace = <<"cache">>
              /\ out.calls = <<>>
              /\ CachedAtEnd => /\ out.kind = "ok"
                                /\ out.packet.answers = <<cache_get(cache, now, Q)>>
        /\ (~CachedAtStart /\ Len(Labels) < 2) =>
              /\ out.kind = "ok"
              /\ out.packet.header.response_code = "NameError"
              /\ out.trace = <<"cache", "labels">>
        /\ (~CachedAtStart /\ Len(Labels) >= 2 /\ Blocked) =>
              /\ out.kind = "drop"
              /\ out.trace = <<"cache", "labels", "blocklist">>
        /\ (~CachedAtStart /\ Len(Labels) >= 2 /\ ~Blocked /\ ZoneMatches # {}) =>
              /\ out.kind = "ok"
              /\ out.packet.header.authoritative
              /\ out.trace = <<"cache", "labels", "blocklist", "zones">>
        /\ (out.calls # <<>>) <=>
              (~CachedAtStart /\ Len(Labels) >= 2 /\ ~Blocked /\ ZoneMatches = {})
        /\ out.calls # <<>> =>
              out.trace = <<"cache", "labels", "blocklist", "zones", "resolver">>

\* a cached question whose name is blocked and matched by a zone record is
\* answered from the cache
C23_Witness ==
    /\ Single /\ Q = Question(XAdsCom, "A")
    /\ CachedAtStart /\ CachedAtEnd /\ Blocked /\ ZoneMatches # {}
    /\ out.kind = "ok" /\ out.packet.answers = <<cache_get(cache, now, Q)>>
    /\ out.calls = <<>>

\* C30: every response results() returns, on every path (NotImplemented for
\* an opcode other than 0 or for a question count, NameError, cache hit,
\* zone answer, resolver result), carries the transaction id of the request.
C30_ResponseCarriesRequestTxId ==
    (Handled /\ out.kind = "ok") => out.packet.header.tx_id = req.header.tx_id

\* the paths of C30 that keep the transaction id: the request's clone
\* (question count, NameError, cache hit) and the zone answer
C30_CloneAndZonePathsKeepTxId ==
    (Standard /\ out.kind = "ok" /\ out.calls = <<>>) =>
        out.packet.header.tx_id = req.header.tx_id

\* the four section counts in the encoding of p: DnsPacket::to_bytes begins
\* with the twelve octets of p.header.to_bytes()
EncodedCounts(p) ==
    LET b == DnsHeader_to_bytes(p.header)
    IN <<read_u16(b, 5), read_u16(b, 7), read_u16(b, 9), read_u16(b, 11)>>
SectionLengths(p) ==
    <<Len(p.queries), Len(p.answers), Len(p.authority), Len(p.additional)>>

\* C26: the encoding of every response the pipeline produces, cache-hit
\* responses included, has header counts equal to the numbers of questions,
\* answers, authority and additional records of the message, whatever counts
\* the in-memory header stores.
C26_EncodedCountsAreSectionLengths ==
    (Handled /\ out.kind = "ok") =>
        EncodedCounts(out.packet) = SectionLengths(out.packet)

\* the same for the cache-hit responses to well-formed requests
C26_CacheHitCounts ==
    (Single /\ CachedAtStart /\ out.kind = "ok") =>
        EncodedCounts(out.packet) = SectionLengths(out.packet)

\* the response code nibble of the received header
RcodeNibble == probe.bytes[4] % 16

\* C28: DnsHeader::from_bytes applied to twelve octets never fails and never
\* panics; a response code nibble in 6..15 decodes to the catch-all
\* FormatError, a nibble in 0..5 to its code, and the other fields are
\* extracted from the octets all the same.
C28_HeaderDecodeIsTotal ==
    Decoded =>
        /\ probe.back.kind = "ok"
        /\ probe.back.consumed = 12
        /\ probe.back.header.response_code =
              (IF RcodeNibble > 5 THEN "FormatError" ELSE ResponseCodes[RcodeNibble + 1])
        /\ probe.back.header.tx_id = probe.bytes[1] * 256 + probe.bytes[2]
        /\ probe.back.header.opcode = (probe.bytes[3] \div 8) % 16
        /\ probe.back.header.z = (probe.bytes[4] \div 16) % 8
        /\ probe.back.header.questions_count = probe.bytes[5] * 256 + probe.bytes[6]

\* the same for the nibbles 0..5, the six codes that have a name
C28_NamedCodesDecode ==
    (Decoded /\ RcodeNibble <= 5) =>
        /\ probe.back.kind = "ok"
        /\ probe.back.consumed = 12
        /\ probe.back.header.response_code = ResponseCodes[RcodeNibble + 1]
        /\ probe.back.header.tx_id = probe.bytes[1] * 256 + probe.bytes[2]
        /\ probe.back.header.opcode = (probe.bytes[3] \div 8) % 16
        /\ probe.back.header.z = (probe.bytes[4] \div 16) % 8
        /\ probe.back.header.questions_count = probe.bytes[5] * 256 + probe.bytes[6]

\* C29: serialize_domain_to_bytes encodes a name without a dot as that one
\* label (its length octet and its octets) followed by a zero octet, and the
\* empty string as a single zero octet.
C29_SingleLabelEncoding ==
    (In.kind = "short" /\ In.packet # NoBytes) =>
        In.packet = (IF In.name = Empty THEN <<0>>
                     ELSE <<Len(In.name)>> \o as_bytes(In.name) \o <<0>>)

\* what the function returns for these names: no octets at all
C29_SingleLabelEncodesToNothing ==
    (In.kind = "short" /\ In.packet # NoBytes) => In.packet = <<>>

\* C25: for every well-formed record of a supported type (A with 4 rdata
\* octets, AAAA with 16, NS or CNAME with a name as rdata),
\* DnsAnswer::from_bytes succeeds and its consumed count is the record's
\* length on the wire (name octets + 10 + rdlength), whatever follows the
\* record; a message with two answers is decoded to two records and its
\* whole buffer is consumed.
C25_ConsumedIsWireLength ==
    Decoded =>
        /\ (probe.what = "record" /\ probe.tag = "supported") =>
              /\ probe.back.kind = "ok"
              /\ probe.back.consumed = probe.wire
        /\ (probe.what = "message" /\ probe.tag = "several") =>
              /\ probe.back.kind = "ok"
              /\ probe.back.consumed = Len(probe.bytes)
              /\ Len(probe.back.packet.answers) = 2

\* the same for the records of type A
C25_ARecordConsumed ==
    Decoded =>
        /\ (probe.what = "record" /\ probe.tag = "supported" /\ probe.type = 1) =>
              /\ probe.back.kind = "ok"
              /\ probe.back.consumed = probe.wire
              /\ probe.back.item.rdata = probe.rdata
        /\ (probe.what = "message" /\ probe.tag = "several"
                                   /\ read_u16(probe.bytes, 22) = 1) =>
              /\ probe.back.kind = "ok"
              /\ probe.back.consumed = Len(probe.bytes)
              /\ Len(probe.back.packet.answers) = 2

\* C27: a record whose type code is not a supported one decodes as an opaque
\* record: the decode succeeds, the rdata is the rdlength octets as they
\* are, the consumed count is the record's length, and a message that holds
\* such a record decodes.
C27_UnknownTypeIsOpaque ==
    Decoded =>
        /\ (probe.what = "record" /\ probe.tag = "unknown") =>
              /\ probe.back.kind = "ok"
              /\ probe.back.item.rdata = probe.rdata
              /\ probe.back.consumed = probe.wire
        /\ (probe.what = "message" /\ probe.tag = "opaque") =>
              /\ probe.back.kind = "ok"
              /\ Len(probe.back.packet.answers) = 1

\* what the decoder returns for these records: the failure Err(DnsAnswer::new())
C27_UnknownTypeIsRejected ==
    (Decoded /\ probe.what = "record" /\ probe.tag = "unknown") =>
        /\ probe.back.kind = "err"
        /\ probe.back.item = DnsAnswer_new

\* C21: decoding never panics on malformed input: for a buffer that ends
\* before the end of the message (shorter than twelve octets, or shorter
\* than its counts, label lengths and rdlength fields require)
\* DnsPacket::from_bytes returns a FormatError outcome.
C21_CutMessageIsFormatError ==
    (Decoded /\ probe.what = "message" /\ probe.tag = "cut") =>
        probe.back.kind = "err"

\* a whole message decodes and its buffer is consumed
C21_WholeMessageDecodes ==
    (Decoded /\ probe.what = "message" /\ probe.tag = "whole") =>
        /\ probe.back.kind = "ok"
        /\ probe.back.consumed = Len(probe.bytes)
        /\ probe.back.packet.header.tx_id = 48879

\* every cut-off message makes the decoder panic
C21_CutMessagePanics ==
    (Decoded /\ probe.what = "message" /\ probe.tag = "cut") =>
        probe.back.kind = "panic"

\* the resolver has just followed a referral of the reply probe.res
Referred == probe.status = "call" /\ probe.res # NoRes

\* C24: the resolver follows a referral only to an address taken from an
\* A/AAAA record of the additional section whose owner name is the name
\* server that an NS record of the authority section of the same reply
\* names.
C24_ReferralFollowsMatchingGlue ==
    Referred =>
        \E i \in 1..Len(probe.res.authority), j \in 1..Len(probe.res.additional) :
            /\ probe.res.authority[i].qtype = "NS"
            /\ probe.res.additional[j].qtype \in {"A", "AAAA"}
            /\ serialize_domain_to_bytes(probe.res.additional[j].name)
                  = probe.res.authority[i].rdata
            /\ probe.res.additional[j].qtype = "A" =>
                  probe.host = Ipv4_to_string(probe.res.additional[j].rdata)

\* what the resolver goes by: an NS record in the authority section and the
\* first A record of the additional section, whoever owns it
C24_FollowsFirstARecord ==
    Referred =>
        /\ \E i \in 1..Len(probe.res.authority) : probe.res.authority[i].qtype = "NS"
        /\ \E j \in 1..Len(probe.res.additional) :
              /\ probe.res.additional[j].qtype = "A"
              /\ \A k \in 1..(j - 1) : probe.res.additional[k].qtype # "A"
              /\ probe.host = Ipv4_to_string(probe.res.additional[j].rdata)

====
